---- MODULE Spec2Model ----
(***************************************************************************)
(* Hierarchical page permissions: the page tree and its closure table      *)
(* (page_tree_paths), group nesting and its two closures                   *)
(* (group_ancestor_paths, group_membership_closure), the grants            *)
(* (page_permissions) and the resolver that reads them.                    *)
(*                                                                         *)
(* Every table is a set of rows (records named after the columns).  One    *)
(* action is one call of a service method or one SQL statement together    *)
(* with the triggers it fires, executed as one transaction; where calls    *)
(* run concurrently, one action is one statement of a call.                *)
(***************************************************************************)
EXTENDS Integers, FiniteSets, Sequences, TLC

(***************************************************************************)
(* Universes of identifiers.  Page ids are 1..NumPages, 0 is SQL NULL.     *)
(***************************************************************************)
NumPages == 4      \* page ids
PermPages == 3     \* pages, where grants are explored
MoveGrants == 1    \* rows of page_permissions, where moves are explored
MaxGrants == 2     \* rows of page_permissions, where resolution is explored
WsPages == 2       \* pages, where the workspace fallback is explored
WsGrants == 1      \* rows of page_permissions, where the fallback is explored
GroupUserRows == 2 \* user rows of group_members, where nesting is explored
NestedGrants == 2  \* rows of page_permissions, where nested groups are explored
NestedUserRows == 1 \* user rows of group_members, where nested groups hold grants
FailPages == 2     \* pages, where failing calls are explored
FailUserRows == 1  \* user rows of group_members, where failing calls are explored

PageIds == 1..NumPages
NoPage == 0
NoId == "null"

users == {"u1", "u2"}
UserIds == users \cup {"u0"}
groups == {"g1", "g2", "g3", "g4"}
\* the group arguments explored where members are added and removed as
\* well: three of the groups and one id that is no group
GroupIds == {"g1", "g2", "g3", "g0"}
\* the group arguments explored where groups are only nested
NestIds == groups \cup {"g0"}
Workspaces == {"w1", "w2"}

PERMISSION_LEVELS == {"none", "read", "write", "full_access"}

LEVEL_ORDER(level) ==
  CASE level = "none" -> 0
    [] level = "read" -> 1
    [] level = "write" -> 2
    [] level = "full_access" -> 3

VARIABLES
  pages,                     \* rows [id, parent_id, workspace_id]
  page_tree_paths,           \* rows [ancestor_id, descendant_id, depth]
  page_permissions,          \* rows [page_id, user_id, group_id, permission]
  group_members,             \* rows [group_id, user_id, child_group_id]
  group_ancestor_paths,      \* rows [ancestor_group_id, descendant_group_id, depth]
  group_membership_closure,  \* rows [group_id, user_id]
  default_permission,        \* workspaces.default_permission, by workspace id
  workspace_members,         \* rows [workspace_id, user_id]
  last,                      \* the most recent call and how it ended
  transactions               \* the transaction in flight on each connection

pageVars == <<pages, page_tree_paths>>
groupVars == <<group_members, group_ancestor_paths, group_membership_closure>>
wsVars == <<default_permission, workspace_members>>
vars == <<pages, page_tree_paths, page_permissions, group_members,
          group_ancestor_paths, group_membership_closure,
          default_permission, workspace_members, last, transactions>>

\* op: the operation; err: "ok" or the error it threw; args: for movePage
\* the page, the new parent and the parent_id the page row had when read,
\* for a setPermission that failed its arguments
Call(op, err) == [op |-> op, err |-> err, args |-> <<>>]
MoveCall(pageId, newParentId, oldParentId, err) ==
  [op |-> "movePage", err |-> err, args |-> <<pageId, newParentId, oldParentId>>]
OK == "ok"

\* Two connections of the pool; each runs one call at a time.  A call in
\* flight is a record: op and args name the call, pc is the statement it
\* runs next, descendants and newAncestors are what movePage has read,
\* waiting the rows a DELETE found locked, deleted, inserted and updated the
\* writes to page_tree_paths and pages that are not committed yet, members,
\* ancestry and membership the uncommitted rows of group_members,
\* group_ancestor_paths and group_membership_closure, row what a resolver
\* has read, before what the resolver would have returned when it started
\* and result what it returned.
Connections == {"t1", "t2"}

NoTransaction ==
  [op |-> "none", pc |-> "idle", args |-> <<>>,
   descendants |-> {}, newAncestors |-> {}, waiting |-> {},
   deleted |-> {}, inserted |-> {}, updated |-> FALSE,
   members |-> {}, ancestry |-> {}, membership |-> {},
   row |-> {}, before |-> {}, result |-> {}]

NoTransactions == [t \in Connections |-> NoTransaction]

(***************************************************************************)
(* The pages table.                                                        *)
(***************************************************************************)
PageIdSet == {p.id : p \in pages}
PageRow(id) == CHOOSE p \in pages : p.id = id
ParentOf(id) == PageRow(id).parent_id

\* The adjacency walk: id, its parent, its parent's parent, ... as a sequence.
\* fuel bounds the walk, so a cyclic parent chain yields a sequence longer
\* than the number of pages instead of a walk that never ends.
RECURSIVE AdjacencyWalk(_, _)
AdjacencyWalk(id, fuel) ==
  IF id = NoPage \/ id \notin PageIdSet \/ fuel = 0 THEN <<>>
  ELSE <<id>> \o AdjacencyWalk(ParentOf(id), fuel - 1)

AdjacencyAncestors(id) == AdjacencyWalk(id, NumPages + 1)

\* Rows removed by a DELETE of `ids`: the rows themselves and, through the
\* ON DELETE CASCADE of pages.parent_id, every page below them.
RECURSIVE CascadePages(_)
CascadePages(ids) ==
  LET more == {p.id : p \in {q \in pages : q.parent_id \in ids}}
  IN IF more \subseteq ids THEN ids ELSE CascadePages(ids \cup more)

PathRow(a, d, k) == [ancestor_id |-> a, descendant_id |-> d, depth |-> k]

(***************************************************************************)
(* maintain_page_tree_insert: the AFTER INSERT trigger on pages.            *)
(***************************************************************************)
\* mutant: the parent's rows copied for the parent only, not its ancestors
maintain_page_tree_insert_ParentOnly(paths, id, parentId) ==
  paths \cup {PathRow(id, id, 0)}
        \cup (IF parentId # NoPage THEN {PathRow(parentId, id, 1)} ELSE {})

maintain_page_tree_insert(paths, id, parentId) ==
  paths \cup {PathRow(id, id, 0)}
        \cup (IF parentId # NoPage
              THEN {PathRow(r.ancestor_id, id, r.depth + 1) :
                      r \in {x \in paths : x.descendant_id = parentId}}
              ELSE {})

\* INSERT INTO pages: a fresh id (uuid), a parent that exists or NULL.
CreatePage(id, parentId, ws) ==
  /\ id \notin PageIdSet
  /\ parentId = NoPage \/ parentId \in PageIdSet
  /\ pages' = pages \cup {[id |-> id, parent_id |-> parentId, workspace_id |-> ws]}
  /\ page_tree_paths' = maintain_page_tree_insert(page_tree_paths, id, parentId)
  /\ last' = Call("createPage", OK)
  /\ UNCHANGED <<page_permissions, groupVars, wsVars, transactions>>

\* DELETE FROM pages WHERE id = ...: the foreign keys cascade to the subtree,
\* to page_tree_paths and to page_permissions.
DeletePage(id) ==
  /\ id \in PageIdSet
  /\ LET gone == CascadePages({id})
     IN /\ pages' = {p \in pages : p.id \notin gone}
        /\ page_tree_paths' = {r \in page_tree_paths :
                                 r.ancestor_id \notin gone /\ r.descendant_id \notin gone}
        /\ page_permissions' = {g \in page_permissions : g.page_id \notin gone}
  /\ last' = Call("deletePage", OK)
  /\ UNCHANGED <<groupVars, wsVars, transactions>>

(***************************************************************************)
(* PageTreeService.movePage                                                *)
(***************************************************************************)
\* the rows of page_tree_paths below pageId (Step 1)
MoveDescendants(pageId) == {r \in page_tree_paths : r.ancestor_id = pageId}

\* mutant: Step 2 left out, the old ancestors keep their paths
MoveDelete_KeepOld(paths, descendantIds) == paths

\* mutant: every path into the subtree deleted, the internal ones too
MoveDelete_Internal(paths, descendantIds) ==
  {r \in paths : r.descendant_id \notin descendantIds \/ r.depth = 0}

\* Step 2: delete the paths from above the subtree into the subtree
MoveDelete(paths, descendantIds) ==
  {r \in paths : ~(r.descendant_id \in descendantIds /\ r.ancestor_id \notin descendantIds)}

\* mutant: the edge from the new parent to the moved page not counted
MoveNewPaths_DepthOff(paths, newParentId, descendants) ==
  IF newParentId = NoPage THEN {}
  ELSE {PathRow(a.ancestor_id, d.descendant_id, a.depth + d.depth) :
          a \in {x \in paths : x.descendant_id = newParentId}, d \in descendants}

\* Step 3: new ancestors x subtree
MoveNewPaths(paths, newParentId, descendants) ==
  IF newParentId = NoPage THEN {}
  ELSE {PathRow(a.ancestor_id, d.descendant_id, a.depth + 1 + d.depth) :
          a \in {x \in paths : x.descendant_id = newParentId}, d \in descendants}

\* mutant: only the move under itself is refused
MoveOutcome_SelfOnly(pageId, newParentId) ==
  IF pageId \notin PageIdSet THEN "NotFoundError"
  ELSE IF pageId = newParentId THEN "InvariantViolation: under itself"
  ELSE IF newParentId # NoPage /\ newParentId \notin PageIdSet THEN "NotFoundError"
  ELSE OK

\* the error movePage throws before any write, or OK
MoveOutcome(pageId, newParentId) ==
  IF pageId \notin PageIdSet THEN "NotFoundError"
  ELSE IF pageId = newParentId THEN "InvariantViolation: under itself"
  ELSE IF newParentId # NoPage /\ newParentId \notin PageIdSet THEN "NotFoundError"
  ELSE IF newParentId # NoPage
          /\ \E r \in page_tree_paths :
                r.ancestor_id = pageId /\ r.descendant_id = newParentId
       THEN "InvariantViolation: under one of its own descendants"
  ELSE OK

\* mutant: Step 2 runs before the checks and outside the transaction
MovePage_DeleteFirst(pageId, newParentId) ==
  LET outcome == MoveOutcome(pageId, newParentId)
      descendants == MoveDescendants(pageId)
      descendantIds == {d.descendant_id : d \in descendants}
      kept == MoveDelete(page_tree_paths, descendantIds)
      newPaths == MoveNewPaths(kept, newParentId, descendants)
      oldParentId == IF pageId \in PageIdSet THEN ParentOf(pageId) ELSE NoPage
  IN /\ last' = MoveCall(pageId, newParentId, oldParentId, outcome)
     /\ IF outcome = OK
        THEN /\ page_tree_paths' = kept \cup newPaths
             /\ pages' = {IF p.id = pageId
                          THEN [p EXCEPT !.parent_id = newParentId] ELSE p : p \in pages}
        ELSE /\ page_tree_paths' = kept
             /\ UNCHANGED pages
     /\ UNCHANGED <<page_permissions, groupVars, wsVars, transactions>>

MovePage(pageId, newParentId) ==
  LET outcome == MoveOutcome(pageId, newParentId)
      descendants == MoveDescendants(pageId)
      descendantIds == {d.descendant_id : d \in descendants}
      kept == MoveDelete(page_tree_paths, descendantIds)
      newPaths == MoveNewPaths(kept, newParentId, descendants)
      \* the INSERT of Step 3 fails on a primary key that is already there,
      \* and the transaction rolls back
      clash == \E r \in newPaths, t \in kept :
                  r.ancestor_id = t.ancestor_id /\ r.descendant_id = t.descendant_id
      oldParentId == IF pageId \in PageIdSet THEN ParentOf(pageId) ELSE NoPage
  IN /\ last' = MoveCall(pageId, newParentId, oldParentId,
                         IF outcome = OK /\ clash THEN "DbError" ELSE outcome)
     /\ IF outcome = OK /\ ~clash
        THEN /\ page_tree_paths' = kept \cup newPaths
             /\ pages' = {IF p.id = pageId
                          THEN [p EXCEPT !.parent_id = newParentId] ELSE p : p \in pages}
        ELSE UNCHANGED pageVars
     /\ UNCHANGED <<page_permissions, groupVars, wsVars, transactions>>

(***************************************************************************)
(* PageTreeService.verifyClosureConsistency                                *)
(***************************************************************************)
verifyClosureConsistency(pageId) ==
  LET adjacencyAncestors == AdjacencyAncestors(pageId)
      closureRows == {r \in page_tree_paths : r.descendant_id = pageId}
  IN /\ Cardinality(closureRows) = Len(adjacencyAncestors)
     /\ \A i \in 1..Len(adjacencyAncestors) :
           PathRow(adjacencyAncestors[i], pageId, i - 1) \in closureRows

(***************************************************************************)
(* page_permissions: the insert of one grant (setPermission of the test    *)
(* factories), under the CHECK and the two unique indexes of the table.    *)
(***************************************************************************)
GrantRow(pageId, userId, groupId, level) ==
  [page_id |-> pageId, user_id |-> userId, group_id |-> groupId, permission |-> level]

\* page_permissions_exactly_one_grantee
ExactlyOneGrantee(userId, groupId) ==
  \/ userId # NoId /\ groupId = NoId
  \/ userId = NoId /\ groupId # NoId

\* mutant: page_permissions_page_group_unique missing
GrantUniqueViolation_UserOnly(perms, pageId, userId, groupId) ==
  \E g \in perms : g.page_id = pageId /\ userId # NoId /\ g.user_id = userId

\* page_permissions_page_user_unique, page_permissions_page_group_unique
GrantUniqueViolation(perms, pageId, userId, groupId) ==
  \E g \in perms : /\ g.page_id = pageId
                   /\ \/ userId # NoId /\ g.user_id = userId
                      \/ groupId # NoId /\ g.group_id = groupId

SetPermission(pageId, userId, groupId, level) ==
  /\ pageId \in PageIdSet
  /\ ExactlyOneGrantee(userId, groupId)
  /\ IF GrantUniqueViolation(page_permissions, pageId, userId, groupId)
     THEN /\ last' = [Call("setPermission", "DbError") EXCEPT
                         !.args = <<pageId, userId, groupId, level>>]
          /\ UNCHANGED page_permissions
     ELSE /\ last' = Call("setPermission", OK)
          /\ page_permissions' =
               page_permissions \cup {GrantRow(pageId, userId, groupId, level)}
  /\ UNCHANGED <<pageVars, groupVars, wsVars, transactions>>

(***************************************************************************)
(* RESOLVE_PERMISSION_SQL, one CTE at a time.  The state it reads is       *)
(* passed in, so that the query can also be asked about another state.     *)
(***************************************************************************)
user_groups(gmc, userId) == {r.group_id : r \in {x \in gmc : x.user_id = userId}}

\* mutant: the page and its parent only
ancestors_ParentOnly(paths, pageId) ==
  {r \in paths : r.descendant_id = pageId /\ r.depth <= 1}

ancestors(paths, pageId) == {r \in paths : r.descendant_id = pageId}

\* mutant: a grant of none outranks every other level (deny wins)
MatchRow_DenyFirst(pp, a) ==
  [page_id |-> pp.page_id, depth |-> a.depth, permission |-> pp.permission,
   grantee_type |-> IF pp.user_id # NoId THEN "user" ELSE "group",
   grantee_priority |-> IF pp.user_id # NoId THEN 0 ELSE 1,
   permission_rank |-> IF pp.permission = "none" THEN 4 ELSE LEVEL_ORDER(pp.permission)]

MatchRow(pp, a) ==
  [page_id |-> pp.page_id, depth |-> a.depth, permission |-> pp.permission,
   grantee_type |-> IF pp.user_id # NoId THEN "user" ELSE "group",
   grantee_priority |-> IF pp.user_id # NoId THEN 0 ELSE 1,
   permission_rank |-> LEVEL_ORDER(pp.permission)]

\* mutant: a grant of none is read as no grant
GranteeMatches_SkipNone(gmc, pp, userId) ==
  /\ pp.permission # "none"
  /\ (pp.user_id = userId \/ pp.group_id \in user_groups(gmc, userId))

GranteeMatches(gmc, pp, userId) ==
  pp.user_id = userId \/ pp.group_id \in user_groups(gmc, userId)

matching_permissions(paths, perms, gmc, userId, pageId) ==
  LET matched == {pp \in perms : GranteeMatches(gmc, pp, userId)}
  IN {MatchRow(x[1], x[2]) :
        x \in {y \in matched \X ancestors(paths, pageId) :
                 y[2].ancestor_id = y[1].page_id}}

\* mutant: MAX(depth)
closest_depth_Max(matching) ==
  CHOOSE m \in {r.depth : r \in matching} : \A r \in matching : m >= r.depth

\* MIN(depth) over a set of rows that is not empty
closest_depth(matching) ==
  CHOOSE m \in {r.depth : r \in matching} : \A r \in matching : m <= r.depth

\* mutant: no filter on the depth
candidates_at_closest_AllDepths(matching) == matching

candidates_at_closest(matching) ==
  {r \in matching : r.depth = closest_depth(matching)}

\* mutant: ORDER BY grantee_priority ASC
SortsBefore_PriorityOnly(r, s) == r.grantee_priority < s.grantee_priority

\* mutant: ORDER BY grantee_priority ASC, permission_rank ASC
SortsBefore_LeastFirst(r, s) ==
  \/ r.grantee_priority < s.grantee_priority
  \/ r.grantee_priority = s.grantee_priority /\ r.permission_rank < s.permission_rank

\* mutant: ORDER BY permission_rank DESC, grantee_priority ASC
SortsBefore_RankFirst(r, s) ==
  \/ r.permission_rank > s.permission_rank
  \/ r.permission_rank = s.permission_rank /\ r.grantee_priority < s.grantee_priority

\* ORDER BY grantee_priority ASC, permission_rank DESC
SortsBefore(r, s) ==
  \/ r.grantee_priority < s.grantee_priority
  \/ r.grantee_priority = s.grantee_priority /\ r.permission_rank > s.permission_rank

\* LIMIT 1: any row that no other row sorts before (SQL leaves the order of
\* ties open); projected on the four selected columns.
ResolutionRow(r) ==
  [page_id |-> r.page_id, depth |-> r.depth, permission |-> r.permission,
   grantee_type |-> r.grantee_type]

FirstRows(candidates) ==
  {ResolutionRow(r) : r \in {c \in candidates : \A s \in candidates : ~SortsBefore(s, c)}}

\* PermissionRepository.resolveFromPageTree: the rows the query may return;
\* the empty set stands for null.
resolveFromPageTree(paths, perms, gmc, userId, pageId) ==
  LET matching == matching_permissions(paths, perms, gmc, userId, pageId)
  IN IF matching = {} THEN {} ELSE FirstRows(candidates_at_closest(matching))

\* mutant: the JOIN on workspace_members left out
getWorkspaceDefault_NoMemberJoin(userId, pageId) ==
  LET rows == {p \in pages : p.id = pageId}
  IN IF rows = {} THEN NoId
     ELSE default_permission[(CHOOSE p \in rows : TRUE).workspace_id]

\* WORKSPACE_DEFAULT_SQL / getWorkspaceDefault: the level, or NoId for null
getWorkspaceDefault(userId, pageId) ==
  LET rows == {p \in pages :
                 /\ p.id = pageId
                 /\ [workspace_id |-> p.workspace_id, user_id |-> userId]
                      \in workspace_members}
  IN IF rows = {} THEN NoId
     ELSE default_permission[(CHOOSE p \in rows : TRUE).workspace_id]

(***************************************************************************)
(* PermissionService.resolvePermission.  A ResolvedPermission is a record  *)
(* [kind, level, page, depth]; the fields a kind does not carry hold       *)
(* NoId / NoPage / 0.                                                      *)
(***************************************************************************)
Direct(level, pageId) ==
  [kind |-> "direct", level |-> level, page |-> pageId, depth |-> 0]
Inherited(level, fromPageId, depth) ==
  [kind |-> "inherited", level |-> level, page |-> fromPageId, depth |-> depth]
WorkspaceDefault(level) ==
  [kind |-> "workspace_default", level |-> level, page |-> NoPage, depth |-> 0]
NoAccess == [kind |-> "no_access", level |-> NoId, page |-> NoPage, depth |-> 0]

\* mutant: the parent's grant reported as a direct one
ShapeRow_ParentDirect(row) ==
  IF row.depth <= 1 THEN Direct(row.permission, row.page_id)
  ELSE Inherited(row.permission, row.page_id, row.depth)

ShapeRow(row) ==
  IF row.depth = 0 THEN Direct(row.permission, row.page_id)
  ELSE Inherited(row.permission, row.page_id, row.depth)

\* mutant: a missing default returned as a workspace default
Fallback_NullIsDefault(workspaceDefault) == WorkspaceDefault(workspaceDefault)

\* mutant: a default of none returned as a workspace default
Fallback_NoneIsDefault(workspaceDefault) ==
  IF workspaceDefault # NoId THEN WorkspaceDefault(workspaceDefault) ELSE NoAccess

Fallback(workspaceDefault) ==
  IF workspaceDefault # NoId /\ workspaceDefault # "none"
  THEN WorkspaceDefault(workspaceDefault)
  ELSE NoAccess

\* mutant: the workspace default as a floor under the grant's level
resolveIn_DefaultFloor(paths, perms, gmc, userId, pageId) ==
  LET rows == resolveFromPageTree(paths, perms, gmc, userId, pageId)
      floor == Fallback(getWorkspaceDefault(userId, pageId))
  IN IF rows # {}
     THEN {IF floor.kind = "workspace_default"
              /\ LEVEL_ORDER(floor.level) > LEVEL_ORDER(row.permission)
           THEN floor ELSE ShapeRow(row) : row \in rows}
     ELSE {floor}

\* the set of results a call may return in the given state
resolveIn(paths, perms, gmc, userId, pageId) ==
  LET rows == resolveFromPageTree(paths, perms, gmc, userId, pageId)
  IN IF rows # {} THEN {ShapeRow(row) : row \in rows}
     ELSE {Fallback(getWorkspaceDefault(userId, pageId))}

resolvePermission(userId, pageId) ==
  resolveIn(page_tree_paths, page_permissions, group_membership_closure, userId, pageId)

\* resolvedPermissionLevel
resolvedPermissionLevel(result) ==
  IF result.kind = "no_access" THEN "none" ELSE result.level

(***************************************************************************)
(* Group tables.                                                           *)
(***************************************************************************)
MemberRow(g, u, c) == [group_id |-> g, user_id |-> u, child_group_id |-> c]
GapRow(a, d, k) == [ancestor_group_id |-> a, descendant_group_id |-> d, depth |-> k]
GmcRow(g, u) == [group_id |-> g, user_id |-> u]

\* INSERT ... ON CONFLICT DO NOTHING into group_ancestor_paths, whose primary
\* key is (ancestor_group_id, descendant_group_id)
GapInsertDoNothing(gap, rows) ==
  gap \cup {r \in rows :
              ~\E t \in gap : /\ t.ancestor_group_id = r.ancestor_group_id
                              /\ t.descendant_group_id = r.descendant_group_id}

\* mutant: the self rows and the new edge only, nothing transitive
maintain_group_ancestor_insert_EdgeOnly(gap, groupId, childGroupId) ==
  IF childGroupId = NoId THEN gap
  ELSE GapInsertDoNothing(
         GapInsertDoNothing(
           GapInsertDoNothing(gap, {GapRow(groupId, groupId, 0)}),
           {GapRow(childGroupId, childGroupId, 0)}),
         {GapRow(groupId, childGroupId, 1)})

\* mutant: only the group nested into itself is refused
prevent_group_cycle_SelfOnly(gap, groupId, childGroupId) ==
  /\ childGroupId # NoId
  /\ groupId = childGroupId

(***************************************************************************)
(* prevent_group_cycle: the BEFORE INSERT trigger on group_members.        *)
(* TRUE when it raises 'Cycle detected'.                                   *)
(***************************************************************************)
prevent_group_cycle(gap, groupId, childGroupId) ==
  /\ childGroupId # NoId
  /\ \/ groupId = childGroupId
     \/ \E r \in gap : /\ r.ancestor_group_id = childGroupId
                       /\ r.descendant_group_id = groupId

(***************************************************************************)
(* maintain_group_ancestor_insert: AFTER INSERT on group_members, one      *)
(* statement after the other.                                              *)
(***************************************************************************)
maintain_group_ancestor_insert(gap, groupId, childGroupId) ==
  IF childGroupId = NoId THEN gap
  ELSE
    LET s1 == GapInsertDoNothing(gap, {GapRow(groupId, groupId, 0)})
        s2 == GapInsertDoNothing(s1, {GapRow(childGroupId, childGroupId, 0)})
        s3 == GapInsertDoNothing(s2, {GapRow(groupId, childGroupId, 1)})
        s4 == GapInsertDoNothing(s3,
                {GapRow(x[1].ancestor_group_id, x[2].descendant_group_id,
                        x[1].depth + x[2].depth + 1) :
                   x \in {y \in s3 \X s3 :
                            /\ y[1].descendant_group_id = groupId
                            /\ y[2].ancestor_group_id = childGroupId
                            /\ y[1].ancestor_group_id # y[1].descendant_group_id}})
        s5 == GapInsertDoNothing(s4,
                {GapRow(r.ancestor_group_id, childGroupId, r.depth + 1) :
                   r \in {y \in s4 : /\ y.descendant_group_id = groupId
                                     /\ y.ancestor_group_id # groupId}})
        s6 == GapInsertDoNothing(s5,
                {GapRow(groupId, r.descendant_group_id, r.depth + 1) :
                   r \in {y \in s5 : /\ y.ancestor_group_id = childGroupId
                                     /\ y.descendant_group_id # childGroupId}})
    IN s6

(***************************************************************************)
(* maintain_group_membership_insert: AFTER INSERT on group_members; it     *)
(* fires after maintain_group_ancestor_insert and sees its rows.           *)
(***************************************************************************)
\* mutant: the row of the group itself only, none for its ancestors
maintain_group_membership_insert_GroupOnly(gmc, gap, groupId, userId, childGroupId) ==
  IF userId # NoId THEN gmc \cup {GmcRow(groupId, userId)} ELSE gmc

maintain_group_membership_insert(gmc, gap, groupId, userId, childGroupId) ==
  LET afterUser ==
        IF userId # NoId
        THEN gmc \cup {GmcRow(groupId, userId)}
                 \cup {GmcRow(r.ancestor_group_id, userId) :
                         r \in {y \in gap : /\ y.descendant_group_id = groupId
                                            /\ y.ancestor_group_id # groupId}}
        ELSE gmc
      afterChild ==
        IF childGroupId # NoId
        THEN LET viaAncestors ==
                   afterUser \cup
                   {GmcRow(x[2].ancestor_group_id, x[1].user_id) :
                      x \in {y \in afterUser \X gap :
                               /\ y[1].group_id = childGroupId
                               /\ y[2].descendant_group_id = groupId}}
             IN viaAncestors \cup
                {GmcRow(groupId, m.user_id) :
                   m \in {y \in viaAncestors : y.group_id = childGroupId}}
        ELSE afterUser
  IN afterChild

(***************************************************************************)
(* maintain_group_membership_delete: AFTER DELETE on group_members.        *)
(* members is group_members after the delete, gap is group_ancestor_paths  *)
(* as the trigger finds it.                                                *)
(***************************************************************************)
\* mutant: only the row of the group the user left is deleted
maintain_group_membership_delete_RowOnly(gmc, gap, members, groupId, userId, childGroupId) ==
  IF userId # NoId THEN gmc \ {GmcRow(groupId, userId)} ELSE gmc

maintain_group_membership_delete(gmc, gap, members, groupId, userId, childGroupId) ==
  LET afterUser ==
        IF userId # NoId
        THEN {r \in gmc : r.user_id # userId} \cup
             UNION {LET joined == {y \in gap : y.descendant_group_id = gm.group_id}
                    IN IF joined = {} THEN {GmcRow(gm.group_id, gm.user_id)}
                       ELSE {GmcRow(y.ancestor_group_id, gm.user_id) : y \in joined} :
                    gm \in {m \in members : m.user_id = userId}}
        ELSE gmc
      affected ==
        {r.ancestor_group_id : r \in {y \in gap : y.descendant_group_id = groupId}}
          \cup {groupId}
      afterChild ==
        IF childGroupId # NoId
        THEN
          LET cleared == {r \in afterUser : r.group_id \notin affected}
              g == {<<r.ancestor_group_id, r.descendant_group_id>> :
                      r \in {y \in gap : y.ancestor_group_id \in affected}}
                     \cup {<<groupId, groupId>>}
              rebuilt ==
                {GmcRow(x[1][1], x[3].user_id) :
                   x \in {y \in g \X gap \X members :
                            /\ y[2].ancestor_group_id = y[1][2]
                            /\ y[3].group_id = y[2].descendant_group_id
                            /\ y[3].user_id # NoId}}
              g_agg == {<<r.ancestor_group_id, r.descendant_group_id>> : r \in gap}
                         \cup {<<id, id>> : id \in groups}
              direct ==
                {GmcRow(x[2][1], x[1].user_id) :
                   x \in {y \in members \X g_agg :
                            /\ y[2][2] = y[1].group_id
                            /\ y[1].user_id # NoId
                            /\ y[2][1] \in affected}}
          IN cleared \cup rebuilt \cup direct
        ELSE afterUser
  IN afterChild

(***************************************************************************)
(* GroupMembershipService.rebuildGroupAncestorPaths                        *)
(***************************************************************************)
\* the rows one round of the INSERT ... SELECT DISTINCT would insert
RebuildRound(gap, members) ==
  {GapRow(x[1].ancestor_group_id, x[2].child_group_id, x[1].depth + 1) :
     x \in {y \in gap \X members :
              /\ y[2].group_id = y[1].descendant_group_id
              /\ y[2].child_group_id # NoId
              /\ ~\E e \in gap :
                    /\ e.ancestor_group_id = y[1].ancestor_group_id
                    /\ e.descendant_group_id = y[2].child_group_id}}

\* a plain INSERT of rows: two rows with one primary key are an error
GapKeyClash(rows) ==
  \E r, t \in rows : /\ r # t
                     /\ r.ancestor_group_id = t.ancestor_group_id
                     /\ r.descendant_group_id = t.descendant_group_id

\* while (inserted): the table when the loop ends; ok is FALSE when it ends
\* because a round's INSERT violates the primary key
RECURSIVE RebuildLoop(_, _)
RebuildLoop(gap, members) ==
  LET round == RebuildRound(gap, members)
  IN IF round = {} THEN [ok |-> TRUE, table |-> gap]
     ELSE IF GapKeyClash(round) THEN [ok |-> FALSE, table |-> gap]
     ELSE RebuildLoop(gap \cup round, members)

\* mutant: the rows of the old nesting are not deleted before the loop
rebuildGroupAncestorPaths_KeepOld(gap, members) == RebuildLoop(gap, members)

rebuildGroupAncestorPaths(gap, members) ==
  RebuildLoop({r \in gap : r.ancestor_group_id = r.descendant_group_id}, members)

(***************************************************************************)
(* GroupMembershipService                                                  *)
(***************************************************************************)
\* group_members_user_unique, group_members_child_group_unique
\* mutant: the unique indexes are not there
MemberUniqueViolation_Never(members, groupId, userId, childGroupId) == FALSE

MemberUniqueViolation(members, groupId, userId, childGroupId) ==
  MemberRow(groupId, userId, childGroupId) \in members

AddUserOutcome(groupId, userId) ==
  IF groupId \notin groups THEN "NotFoundError"
  ELSE IF userId \notin users THEN "NotFoundError"
  ELSE IF MemberUniqueViolation(group_members, groupId, userId, NoId)
       THEN "ConflictError: already a member"
  ELSE OK

AddUser(groupId, userId) ==
  LET outcome == AddUserOutcome(groupId, userId)
  IN /\ last' = Call("addUser", outcome)
     /\ IF outcome = OK
        THEN /\ group_members' = group_members \cup {MemberRow(groupId, userId, NoId)}
             /\ group_ancestor_paths' =
                  maintain_group_ancestor_insert(group_ancestor_paths, groupId, NoId)
             /\ group_membership_closure' =
                  maintain_group_membership_insert(group_membership_closure,
                    group_ancestor_paths', groupId, userId, NoId)
        ELSE UNCHANGED groupVars
     /\ UNCHANGED <<pageVars, page_permissions, wsVars, transactions>>

RemoveUser(groupId, userId) ==
  LET deleted == {m \in group_members : m.group_id = groupId /\ m.user_id = userId}
      remaining == group_members \ deleted
  IN /\ userId # NoId
     /\ IF deleted = {}
        THEN /\ last' = Call("removeUser", "NotFoundError")
             /\ UNCHANGED groupVars
        ELSE /\ last' = Call("removeUser", OK)
             /\ group_members' = remaining
             /\ group_membership_closure' =
                  maintain_group_membership_delete(group_membership_closure,
                    group_ancestor_paths, remaining, groupId, userId, NoId)
             /\ UNCHANGED group_ancestor_paths
     /\ UNCHANGED <<pageVars, page_permissions, wsVars, transactions>>

NestOutcome(parentGroupId, childGroupId) ==
  IF parentGroupId \notin groups THEN "NotFoundError"
  ELSE IF childGroupId \notin groups THEN "NotFoundError"
  ELSE IF prevent_group_cycle(group_ancestor_paths, parentGroupId, childGroupId)
       THEN "ConflictError: Cycle detected"
  ELSE IF MemberUniqueViolation(group_members, parentGroupId, NoId, childGroupId)
       THEN "ConflictError: already nested"
  ELSE OK

NestGroup(parentGroupId, childGroupId) ==
  LET outcome == NestOutcome(parentGroupId, childGroupId)
  IN /\ last' = Call("nestGroup", outcome)
     /\ IF outcome = OK
        THEN /\ group_members' =
                  group_members \cup {MemberRow(parentGroupId, NoId, childGroupId)}
             /\ group_ancestor_paths' =
                  maintain_group_ancestor_insert(group_ancestor_paths,
                    parentGroupId, childGroupId)
             /\ group_membership_closure' =
                  maintain_group_membership_insert(group_membership_closure,
                    group_ancestor_paths', parentGroupId, NoId, childGroupId)
        ELSE UNCHANGED groupVars
     /\ UNCHANGED <<pageVars, page_permissions, wsVars, transactions>>

\* withTrx: whether the caller passed a transaction; without one every
\* statement commits on its own, so a failing rebuild leaves what was written
UnnestGroup(parentGroupId, childGroupId, withTrx) ==
  LET deleted == {m \in group_members :
                    m.group_id = parentGroupId /\ m.child_group_id = childGroupId}
      remaining == group_members \ deleted
      closure == maintain_group_membership_delete(group_membership_closure,
                   group_ancestor_paths, remaining, parentGroupId, NoId, childGroupId)
      rebuilt == rebuildGroupAncestorPaths(group_ancestor_paths, remaining)
  IN /\ childGroupId # NoId
     /\ IF deleted = {}
        THEN /\ last' = Call("unnestGroup", "NotFoundError")
             /\ UNCHANGED groupVars
        ELSE IF ~rebuilt.ok /\ withTrx
        THEN /\ last' = Call("unnestGroup", "DbError")
             /\ UNCHANGED groupVars
        ELSE /\ last' = Call("unnestGroup", IF rebuilt.ok THEN OK ELSE "DbError")
             /\ group_members' = remaining
             /\ group_membership_closure' = closure
             /\ group_ancestor_paths' = rebuilt.table
     /\ UNCHANGED <<pageVars, page_permissions, wsVars, transactions>>

\* addWorkspaceMember: INSERT INTO workspace_members, primary key
\* (workspace_id, user_id)
AddWorkspaceMember(workspaceId, userId) ==
  /\ [workspace_id |-> workspaceId, user_id |-> userId] \notin workspace_members
  /\ workspace_members' =
       workspace_members \cup {[workspace_id |-> workspaceId, user_id |-> userId]}
  /\ last' = Call("addWorkspaceMember", OK)
  /\ UNCHANGED <<pageVars, page_permissions, groupVars, default_permission, transactions>>

(***************************************************************************)
(* Specifications.  Every one starts from empty tables (a migrated,        *)
(* truncated database) with the users, groups and workspaces in place.     *)
(***************************************************************************)
\* a new page gets a generated id; the smallest unused one stands for it
FreshPage == CHOOSE id \in PageIds \ PageIdSet : \A other \in PageIds \ PageIdSet : id <= other

InitEmpty ==
  /\ pages = {}
  /\ page_tree_paths = {}
  /\ page_permissions = {}
  /\ group_members = {}
  /\ group_ancestor_paths = {}
  /\ group_membership_closure = {}
  /\ workspace_members = {}
  /\ last = Call("init", OK)
  /\ transactions = NoTransactions

\* insertWorkspace: default_permission is 'none' unless the caller sets it
Init ==
  /\ InitEmpty
  /\ default_permission = [w \in Workspaces |-> "none"]

(* The page tree: create, move, delete. *)
NextTree ==
  \/ \E parentId \in PageIdSet \cup {NoPage} :
       /\ Cardinality(pages) < NumPages
       /\ CreatePage(FreshPage, parentId, "w1")
  \/ \E pageId \in PageIds, newParentId \in PageIds \cup {NoPage} :
       MovePage(pageId, newParentId)
  \/ \E pageId \in PageIdSet : DeletePage(pageId)

SpecTree == Init /\ [][NextTree]_vars

(* Moves under grants: the tree operations, and grants to users. *)
NextMove ==
  \/ \E parentId \in PageIdSet \cup {NoPage} :
       /\ Cardinality(pages) < PermPages
       /\ CreatePage(FreshPage, parentId, "w1")
  \/ \E pageId \in PageIdSet, newParentId \in PageIdSet \cup {NoPage} :
       MovePage(pageId, newParentId)
  \/ \E pageId \in PageIdSet : DeletePage(pageId)
  \/ \E pageId \in PageIdSet, u \in users, level \in PERMISSION_LEVELS :
       /\ Cardinality(page_permissions) < MoveGrants
       /\ SetPermission(pageId, u, NoId, level)

SpecMove == Init /\ [][NextMove]_vars

(* Grants of users and groups on a growing tree.  u1 is a member of the
   pages' workspace, whose default is full_access, and joins groups; u2 is
   no member of the workspace or of any group. *)
InitPerm ==
  /\ pages = {}
  /\ page_tree_paths = {}
  /\ page_permissions = {}
  /\ group_members = {}
  /\ group_ancestor_paths = {}
  /\ group_membership_closure = {}
  /\ default_permission = [w \in Workspaces |-> IF w = "w1" THEN "full_access" ELSE "none"]
  /\ workspace_members = {[workspace_id |-> "w1", user_id |-> "u1"]}
  /\ last = Call("init", OK)
  /\ transactions = NoTransactions

NextPerm ==
  \/ \E parentId \in PageIdSet \cup {NoPage} :
       /\ Cardinality(pages) < PermPages
       /\ CreatePage(FreshPage, parentId, "w1")
  \/ \E pageId \in PageIdSet, u \in users, level \in PERMISSION_LEVELS :
       /\ Cardinality(page_permissions) < MaxGrants
       /\ SetPermission(pageId, u, NoId, level)
  \/ \E pageId \in PageIdSet, g \in {"g1", "g2"}, level \in PERMISSION_LEVELS :
       /\ Cardinality(page_permissions) < MaxGrants
       /\ SetPermission(pageId, NoId, g, level)
  \/ \E g \in {"g1", "g2"} : AddUser(g, "u1")

SpecPerm == InitPerm /\ [][NextPerm]_vars

(* The workspace fallback: pages of two workspaces, any defaults, members
   joining, and grants to users. *)
InitWs ==
  /\ InitEmpty
  /\ default_permission \in [Workspaces -> PERMISSION_LEVELS]

NextWs ==
  \/ \E parentId \in PageIdSet \cup {NoPage}, ws \in Workspaces :
       /\ Cardinality(pages) < WsPages
       /\ CreatePage(FreshPage, parentId, ws)
  \/ \E ws \in Workspaces, u \in users : AddWorkspaceMember(ws, u)
  \/ \E pageId \in PageIdSet, u \in users, level \in PERMISSION_LEVELS :
       /\ Cardinality(page_permissions) < WsGrants
       /\ SetPermission(pageId, u, NoId, level)

SpecWs == InitWs /\ [][NextWs]_vars

(* Groups: membership and nesting.  The groups exist from the start, all
   with their self row in group_ancestor_paths (insertGroup) or all without
   (a plain INSERT INTO groups). *)
InitGroup ==
  /\ pages = {}
  /\ page_tree_paths = {}
  /\ page_permissions = {}
  /\ group_members = {}
  /\ group_ancestor_paths \in {{}, {GapRow(g, g, 0) : g \in groups}}
  /\ group_membership_closure = {}
  /\ default_permission = [w \in Workspaces |-> "none"]
  /\ workspace_members = {}
  /\ last = Call("init", OK)
  /\ transactions = NoTransactions

UserRows == {m \in group_members : m.user_id # NoId}

NextGroup ==
  \/ \E g \in GroupIds, u \in UserIds :
       /\ Cardinality(UserRows) < GroupUserRows
       /\ AddUser(g, u)
  \/ \E g \in GroupIds, u \in UserIds : RemoveUser(g, u)
  \/ \E g \in GroupIds, c \in GroupIds : NestGroup(g, c)
  \/ \E g \in GroupIds, c \in GroupIds, withTrx \in BOOLEAN : UnnestGroup(g, c, withTrx)

SpecGroup == InitGroup /\ [][NextGroup]_vars

(* Grants of nested groups: a page and its child, the groups created by
   insertGroup, grants to g1 and g2, u1 joining a group, groups nested and
   unnested. *)
GrantGroups == {"g1", "g2"}
NestGroups == {"g1", "g2", "g3"}

InitNested ==
  /\ pages = {[id |-> 1, parent_id |-> NoPage, workspace_id |-> "w1"],
              [id |-> 2, parent_id |-> 1, workspace_id |-> "w1"]}
  /\ page_tree_paths =
       maintain_page_tree_insert(maintain_page_tree_insert({}, 1, NoPage), 2, 1)
  /\ page_permissions = {}
  /\ group_members = {}
  /\ group_ancestor_paths = {GapRow(g, g, 0) : g \in groups}
  /\ group_membership_closure = {}
  /\ default_permission = [w \in Workspaces |-> "none"]
  /\ workspace_members = {}
  /\ last = Call("init", OK)
  /\ transactions = NoTransactions

NextNested ==
  \/ \E pageId \in PageIdSet, g \in GrantGroups, level \in PERMISSION_LEVELS :
       /\ Cardinality(page_permissions) < NestedGrants
       /\ SetPermission(pageId, NoId, g, level)
  \/ \E g \in NestGroups :
       /\ Cardinality(UserRows) < NestedUserRows
       /\ AddUser(g, "u1")
  \/ \E g \in NestGroups, c \in NestGroups : NestGroup(g, c)
  \/ \E g \in NestGroups, c \in NestGroups : UnnestGroup(g, c, TRUE)

SpecNested == InitNested /\ [][NextNested]_vars

(* Failing calls: pages created and moved, members added and removed,
   groups nested and unnested, with arguments that exist and that do not. *)
FailGroupIds == {"g1", "g2", "g0"}
FailUserIds == {"u1", "u0"}

NextFail ==
  \/ \E parentId \in PageIdSet \cup {NoPage} :
       /\ Cardinality(pages) < FailPages
       /\ CreatePage(FreshPage, parentId, "w1")
  \/ \E pageId \in 1..FailPages + 1, newParentId \in 0..FailPages + 1 :
       MovePage(pageId, newParentId)
  \/ \E g \in FailGroupIds, u \in FailUserIds :
       /\ Cardinality(UserRows) < FailUserRows \/ AddUserOutcome(g, u) # OK
       /\ AddUser(g, u)
  \/ \E g \in FailGroupIds, u \in FailUserIds : RemoveUser(g, u)
  \/ \E g \in FailGroupIds, c \in FailGroupIds : NestGroup(g, c)
  \/ \E g \in FailGroupIds, c \in FailGroupIds : UnnestGroup(g, c, TRUE)

SpecFail == InitGroup /\ [][NextFail]_vars

(* Groups: nesting only, no removals. *)
NextNest == \E g \in NestIds, c \in NestIds : NestGroup(g, c)

SpecNest == InitGroup /\ [][NextNest]_vars

(***************************************************************************)
(* What the claims speak of, stated on the base tables: depth is counted   *)
(* along parent_id (not read from page_tree_paths), and a user's groups    *)
(* are the ones the membership index records for the user (groupsOf).      *)
(***************************************************************************)
Chain(n) == AdjacencyAncestors(n)
AncestorAt(n, k) == Chain(n)[k + 1]
Depths(n) == 0..(Len(Chain(n)) - 1)

GroupsOf(u) == {r.group_id : r \in {x \in group_membership_closure : x.user_id = u}}

\* the grants applicable to u on the ancestor of n at depth k: the grant of
\* u and the grants of the groups of u
GrantsAt(u, n, k) ==
  LET a == AncestorAt(n, k)
      gs == GroupsOf(u)
  IN {g \in page_permissions :
        g.page_id = a /\ (g.user_id = u \/ (g.group_id # NoId /\ g.group_id \in gs))}

MatchDepths(u, n) ==
  LET chain == Chain(n)
      gs == GroupsOf(u)
  IN {k \in 0..(Len(chain) - 1) :
        \E g \in page_permissions :
           g.page_id = chain[k + 1]
             /\ (g.user_id = u \/ (g.group_id # NoId /\ g.group_id \in gs))}

WinDepth(u, n) == CHOOSE k \in MatchDepths(u, n) : \A j \in MatchDepths(u, n) : k <= j

MaxLevel(levels) ==
  CHOOSE l \in levels : \A m \in levels : LEVEL_ORDER(l) >= LEVEL_ORDER(m)

\* C1: closest depth wins.  Whenever a grant applicable to u lies on the
\* ancestor chain of n, every result of resolvePermission(u, n) comes from
\* the smallest depth D that has an applicable grant, carries the level of
\* an applicable grant at D, and is the same as the result computed with
\* all grants on other pages removed.
C1_ClosestDepthWins ==
  \A u \in users, n \in PageIdSet :
    MatchDepths(u, n) # {} =>
      LET D == WinDepth(u, n)
          nearest == {g \in page_permissions : g.page_id = AncestorAt(n, D)}
      IN /\ resolvePermission(u, n) =
              resolveIn(page_tree_paths, nearest, group_membership_closure, u, n)
         /\ \A r \in resolvePermission(u, n) :
              /\ r.kind \in {"direct", "inherited"}
              /\ r.depth = D
              /\ \E g \in GrantsAt(u, n, D) : r.level = g.permission

\* a closer group grant wins over a farther user grant of a higher level
C1_Witness ==
  \E u \in users, n \in PageIdSet :
    \E k1 \in MatchDepths(u, n), k2 \in MatchDepths(u, n) :
      /\ k1 = WinDepth(u, n)
      /\ k1 < k2
      /\ \E g1 \in GrantsAt(u, n, k1), g2 \in GrantsAt(u, n, k2) :
            /\ g1.group_id # NoId
            /\ g2.user_id = u
            /\ LEVEL_ORDER(g2.permission) > LEVEL_ORDER(g1.permission)
      /\ \A r \in resolvePermission(u, n) : r.depth = k1

\* C2: user beats group at equal depth.  If a user grant for u lies at the
\* winning depth, every result carries that grant's level, whatever the
\* groups of u hold on the same page.
C2_UserBeatsGroup ==
  \A u \in users, n \in PageIdSet :
    MatchDepths(u, n) # {} =>
      \A g \in GrantsAt(u, n, WinDepth(u, n)) :
        g.user_id = u =>
          \A r \in resolvePermission(u, n) : r.level = g.permission

\* a user grant below a group grant of u on the same page, and one above
C2_Witness ==
  \E u \in users, n \in PageIdSet :
    /\ MatchDepths(u, n) # {}
    /\ \E g \in GrantsAt(u, n, WinDepth(u, n)), h \in GrantsAt(u, n, WinDepth(u, n)) :
          /\ g.user_id = u
          /\ h.group_id # NoId
          /\ LEVEL_ORDER(h.permission) > LEVEL_ORDER(g.permission)
          /\ \A r \in resolvePermission(u, n) : r.level = g.permission

\* C3: most permissive group wins.  If no user grant for u lies at the
\* winning depth, every result carries the maximum level among the grants
\* the groups of u hold there; none ranks lowest and denies nothing.
C3_MostPermissiveGroup ==
  \A u \in users, n \in PageIdSet :
    MatchDepths(u, n) # {} =>
      LET winners == GrantsAt(u, n, WinDepth(u, n))
      IN (\A g \in winners : g.user_id # u) =>
           \A r \in resolvePermission(u, n) :
             r.level = MaxLevel({g.permission : g \in winners})

\* two groups of u on the winning page, one granting none, one more
C3_Witness ==
  \E u \in users, n \in PageIdSet :
    /\ MatchDepths(u, n) # {}
    /\ LET winners == GrantsAt(u, n, WinDepth(u, n))
       IN /\ \A g \in winners : g.user_id # u
          /\ \E g \in winners, h \in winners :
                /\ g.permission = "none"
                /\ h.permission # "none"
                /\ \A r \in resolvePermission(u, n) : r.level = h.permission

\* C4: result shape.  A grant winning at depth 0 yields kind direct with the
\* target page; a grant winning at depth d > 0 yields kind inherited with
\* depth d and the page d steps up the parent chain.
C4_ResultShape ==
  \A u \in users, n \in PageIdSet :
    MatchDepths(u, n) # {} =>
      LET D == WinDepth(u, n)
      IN \A r \in resolvePermission(u, n) :
           /\ D = 0 => r.kind = "direct" /\ r.page = n /\ r.depth = 0
           /\ D > 0 => /\ r.kind = "inherited"
                       /\ r.depth = D
                       /\ r.page = AncestorAt(n, D)

\* a grant on the grandparent only
C4_Witness ==
  \E u \in users, n \in PageIdSet :
    /\ MatchDepths(u, n) = {2}
    /\ \E g \in GrantsAt(u, n, 2) :
         resolvePermission(u, n) = {Inherited(g.permission, ParentOf(ParentOf(n)), 2)}

\* C6: denial supremacy.  A user grant of none for u at depth D with no
\* applicable grant closer than D makes every result carry level none (as a
\* direct or inherited result), whatever groups hold at D or farther and
\* whatever the workspace default.
C6_DenialSupremacy ==
  \A u \in users, n \in PageIdSet :
    \A D \in Depths(n) :
      /\ GrantRow(AncestorAt(n, D), u, NoId, "none") \in page_permissions
      /\ \A k \in 0..(D - 1) : GrantsAt(u, n, k) = {}
      => \A r \in resolvePermission(u, n) :
           r.kind \in {"direct", "inherited"} /\ r.level = "none"

\* a workspace member denied on a page where one of the member's groups
\* holds more, under a workspace default of full_access
C6_Witness ==
  \E u \in users, n \in PageIdSet :
    \E D \in Depths(n) :
      /\ GrantRow(AncestorAt(n, D), u, NoId, "none") \in page_permissions
      /\ \A k \in 0..(D - 1) : GrantsAt(u, n, k) = {}
      /\ \E g \in GrantsAt(u, n, D) : g.group_id # NoId /\ g.permission # "none"
      /\ getWorkspaceDefault(u, n) = "full_access"
      /\ \A r \in resolvePermission(u, n) : r.level = "none"

\* the workspace of page n, and whether u is a member of it
WorkspaceOf(n) == PageRow(n).workspace_id
IsWorkspaceMember(u, n) ==
  [workspace_id |-> WorkspaceOf(n), user_id |-> u] \in workspace_members

\* C5 as stated: with no applicable grant on the chain, a member of n's
\* workspace gets WorkspaceDefault with the workspace's default level, and a
\* non-member gets NoAccess.
C5_AsStated ==
  \A u \in users, n \in PageIdSet :
    MatchDepths(u, n) = {} =>
      resolvePermission(u, n) =
        IF IsWorkspaceMember(u, n)
        THEN {WorkspaceDefault(default_permission[WorkspaceOf(n)])}
        ELSE {NoAccess}

\* C5, amended: with no applicable grant on the chain, a member of n's
\* workspace gets WorkspaceDefault with the workspace's default level when
\* that level is not none; a non-member, and a member of a workspace whose
\* default is none, gets NoAccess.
C5_WorkspaceFallback ==
  \A u \in users, n \in PageIdSet :
    MatchDepths(u, n) = {} =>
      resolvePermission(u, n) =
        IF IsWorkspaceMember(u, n) /\ default_permission[WorkspaceOf(n)] # "none"
        THEN {WorkspaceDefault(default_permission[WorkspaceOf(n)])}
        ELSE {NoAccess}

\* one user falls back to the default of one workspace on one page and has
\* no access to an ungranted page of the other workspace, whose default
\* differs and is not none either, being no member there
C5_Witness ==
  \E u \in users, n \in PageIdSet, m \in PageIdSet :
    /\ MatchDepths(u, n) = {} /\ MatchDepths(u, m) = {}
    /\ IsWorkspaceMember(u, n) /\ ~IsWorkspaceMember(u, m)
    /\ default_permission[WorkspaceOf(n)] = "read"
    /\ default_permission[WorkspaceOf(m)] = "write"
    /\ resolvePermission(u, n) = {WorkspaceDefault("read")}
    /\ resolvePermission(u, m) = {NoAccess}

(***************************************************************************)
(* The page tree, stated on parent_id.                                     *)
(***************************************************************************)
ChainSet(n) == {Chain(n)[i] : i \in 1..Len(Chain(n))}

\* the pages from which n is reached by following parent_id one or more times
ProperAncestors(n) == ChainSet(n) \ {n}

\* p and the pages below it
Subtree(p) == {d \in PageIdSet : p \in ChainSet(d)}

\* following parent_id from any page ends at a root without meeting a page twice
ParentsAcyclic == \A n \in PageIdSet : Len(Chain(n)) <= Cardinality(pages)

\* the closure the parent pointers define
ClosureOfParents ==
  UNION {{PathRow(AncestorAt(d, k), d, k) : k \in Depths(d)} : d \in PageIdSet}

\* C7: page closure invariant.  After any sequence of page creations, moves
\* and deletions, page_tree_paths holds exactly the rows (a, d, k) with a
\* reached from d by following parent_id k >= 0 times, and
\* verifyClosureConsistency holds for every page.
C7_PageClosure ==
  /\ ParentsAcyclic
  /\ page_tree_paths = ClosureOfParents
  /\ \A p \in PageIdSet : verifyClosureConsistency(p)

\* a page with a child has just been moved under a page that has a parent
C7_Witness ==
  /\ last.op = "movePage" /\ last.err = OK
  /\ LET n == last.args[1]
         q == last.args[2]
     IN /\ q # NoPage /\ last.args[3] # q
        /\ ParentOf(q) # NoPage
        /\ \E d \in PageIdSet : ParentOf(d) = n
        /\ \E r \in page_tree_paths : r.depth = 3
  /\ C7_PageClosure

\* C8: move cycle guard.  In every reachable state movePage(p, q) is refused
\* for q = p and for every q below p; a refused movePage changes neither
\* pages nor page_tree_paths; and the parent pointers are never cyclic.
C8_RefusesCycles ==
  \A p \in PageIdSet, q \in PageIdSet :
    (q = p \/ p \in ProperAncestors(q)) => MoveOutcome(p, q) # OK

C8_MoveCycleGuard ==
  /\ [](C8_RefusesCycles /\ ParentsAcyclic)
  /\ [][last'.op = "movePage" /\ last'.err # OK => UNCHANGED <<pages, page_tree_paths>>]_vars

\* a move of a page under its own grandchild has just been refused
C8_Witness ==
  /\ last.op = "movePage"
  /\ last.err = "InvariantViolation: under one of its own descendants"
  /\ last.args[1] \in ProperAncestors(ParentOf(last.args[2]))

\* C9: move correctness.  After a successful movePage(n, p2) that changed
\* the parent of n from p1 to p2, any inherited result for a page d in n's
\* subtree comes from a page in n's subtree or on p2's ancestor chain (p2
\* included), never from p1 or an ancestor of p1 that is no ancestor of p2.
C9_MoveCorrectness ==
  (last.op = "movePage" /\ last.err = OK /\ last.args[3] # last.args[2]) =>
    LET n == last.args[1]
        p2 == last.args[2]
        p1 == last.args[3]
    IN \A u \in users, d \in Subtree(n) :
         \A r \in resolvePermission(u, d) :
           r.kind = "inherited" =>
             /\ r.page \in Subtree(n) \cup ChainSet(p2)
             /\ r.page \notin ChainSet(p1) \ ChainSet(p2)

\* n, with a child, has just been moved away from a parent that holds a
\* grant for u: the child no longer inherits it
C9_Witness ==
  /\ last.op = "movePage" /\ last.err = OK
  /\ LET n == last.args[1]
         p1 == last.args[3]
     IN /\ p1 # NoPage /\ p1 # last.args[2]
        /\ \E u \in users, d \in Subtree(n) \ {n} :
              /\ \E g \in page_permissions : g.page_id = p1 /\ g.user_id = u
              /\ resolvePermission(u, d) = {NoAccess}

(***************************************************************************)
(* The nesting graph, stated on group_members.                             *)
(***************************************************************************)
\* the groups nested directly into g
NestedIn(g) ==
  {m.child_group_id : m \in {x \in group_members :
                               x.group_id = g /\ x.child_group_id # NoId}}

\* the groups reached from the groups of S by one or more nesting edges
RECURSIVE NestedBelow(_, _)
NestedBelow(S, fuel) ==
  LET step == UNION {NestedIn(g) : g \in S}
  IN IF fuel = 0 \/ step = {} THEN {}
     ELSE step \cup NestedBelow(step, fuel - 1)

NestingAcyclic ==
  \A g \in groups : g \notin NestedBelow({g}, Cardinality(groups))

\* C10: nest cycle rejection.  Nesting c into g is refused when c = g or
\* when group_ancestor_paths records c as an ancestor of g; a refused nest
\* leaves group_members, group_ancestor_paths and group_membership_closure
\* as they were; and the nesting graph of group_members is always acyclic.
C10_RefusesCycles ==
  \A g \in groups, c \in groups :
    (c = g \/ \E r \in group_ancestor_paths :
                 r.ancestor_group_id = c /\ r.descendant_group_id = g)
      => NestOutcome(g, c) = "ConflictError: Cycle detected"

C10_NestCycleRejection ==
  /\ [](C10_RefusesCycles /\ NestingAcyclic)
  /\ [][last'.op = "nestGroup" /\ last'.err # OK => UNCHANGED groupVars]_vars

\* nesting a group into a group that sits two nesting edges below it has
\* just been refused as a cycle
C10_Witness ==
  /\ last.op = "nestGroup"
  /\ last.err = "ConflictError: Cycle detected"
  /\ \E g \in groups, c \in groups :
        /\ c \in NestedBelow({g}, Cardinality(groups)) \ NestedIn(g)
        /\ NestOutcome(c, g) = "ConflictError: Cycle detected"

(***************************************************************************)
(* Membership, stated on group_members.                                    *)
(***************************************************************************)
\* g and the groups reached from g through the current nesting edges
NestedOrSelf(g) == {g} \cup NestedBelow({g}, Cardinality(groups))

\* the users the rows of group_members put directly into g
DirectMembers(g) ==
  {m.user_id : m \in {x \in group_members : x.group_id = g /\ x.user_id # NoId}}

\* the flattened membership the base rows define
MembershipOfEdges ==
  UNION {{GmcRow(g, u) : u \in UNION {DirectMembers(h) : h \in NestedOrSelf(g)}} :
           g \in groups}

\* C11: flattened membership invariant.  After any sequence of addUser,
\* removeUser, nestGroup and unnestGroup, group_membership_closure holds
\* (g, u) exactly when u is a direct member of g or of a group reached from
\* g through the current nesting edges.
C11_FlattenedMembership == group_membership_closure = MembershipOfEdges

(***************************************************************************)
(* Group ancestry, stated on group_members.                                *)
(***************************************************************************)
\* the (ancestor, descendant) pairs group_ancestor_paths has a row for
GapPairs ==
  {<<r.ancestor_group_id, r.descendant_group_id>> : r \in group_ancestor_paths}

\* the pairs (a, d) with d reached from a through one or more nesting edges
NestingPairs ==
  UNION {{<<a, d>> : d \in NestedBelow({a}, Cardinality(groups))} : a \in groups}

\* the groups that are parent or child of a nesting edge
TookPart ==
  {g \in groups : \E m \in group_members :
     m.child_group_id # NoId /\ (m.group_id = g \/ m.child_group_id = g)}

\* C12 as stated: after a successful nestGroup, group_ancestor_paths has a
\* row for (a, d) exactly when a = d for a group that took part in a
\* nesting, or d is reached from a through one or more nesting edges.
C12_AsStated ==
  (last.op = "nestGroup" /\ last.err = OK) =>
    GapPairs = {<<g, g>> : g \in TookPart} \cup NestingPairs

\* C12: group ancestry under nesting.  After any sequence of nestGroup
\* calls and no removal, group_ancestor_paths has a row for (a, d) with
\* a # d exactly when d is reached from a through one or more nesting edges;
\* it has the self row of every group that took part in a nesting; and the
\* groups that took no part have their self row only if the groups were
\* created with it, all of them or none.
C12_GroupAncestry ==
  LET idle == groups \ TookPart
      selfIdle == {g \in idle : <<g, g>> \in GapPairs}
  IN /\ {x \in GapPairs : x[1] # x[2]} = NestingPairs
     /\ \A g \in TookPart : <<g, g>> \in GapPairs
     /\ selfIdle \in {{}, idle}
     /\ GapPairs \subseteq groups \X groups

\* a chain of three nestings is in place and the last nest put a group
\* with an ancestor above a group with a descendant
C12_Witness ==
  /\ last.op = "nestGroup" /\ last.err = OK
  /\ \E a, g, c, d \in groups :
        /\ Cardinality({a, g, c, d}) = 4
        /\ a \in {m.group_id : m \in {x \in group_members : x.child_group_id = g}}
        /\ c \in NestedIn(g) /\ d \in NestedIn(c)
        /\ <<a, d>> \in GapPairs

(***************************************************************************)
(* Grants applicable through membership as group_members defines it.       *)
(***************************************************************************)
\* the groups u is a direct member of, or that hold such a group through
\* the current nesting edges
MemberGroups(u) == {g \in groups : \E h \in NestedOrSelf(g) : u \in DirectMembers(h)}

\* the grants on the ancestor of n at depth k that u's own rows and u's
\* membership make applicable
EdgeGrantsAt(u, n, k) ==
  {g \in page_permissions :
     /\ g.page_id = AncestorAt(n, k)
     /\ (g.user_id = u \/ (g.group_id # NoId /\ g.group_id \in MemberGroups(u)))}

EdgeMatchDepths(u, n) == {k \in Depths(n) : EdgeGrantsAt(u, n, k) # {}}

\* C13: nested membership grants access.  If u is a direct member of c, c
\* is nested in g directly or through a chain of nestings, and the grant of
\* g, of level L, is the only applicable grant on n's closest granted
\* ancestor, then resolvePermission(u, n) has level L.
C13_NestedMembership ==
  \A u \in users, n \in PageIdSet, g \in groups, c \in groups :
    (/\ u \in DirectMembers(c)
     /\ c \in NestedBelow({g}, Cardinality(groups))
     /\ EdgeMatchDepths(u, n) # {}) =>
      LET D == CHOOSE k \in EdgeMatchDepths(u, n) : \A j \in EdgeMatchDepths(u, n) : k <= j
      IN \A grant \in page_permissions :
           (EdgeGrantsAt(u, n, D) = {grant} /\ grant.group_id = g) =>
             \A r \in resolvePermission(u, n) :
               resolvedPermissionLevel(r) = grant.permission

(***************************************************************************)
(* Levels before and after a step.                                         *)
(***************************************************************************)
\* the ranks of the levels resolvePermission(u, n) may return
ResolvedRanks(u, n) ==
  {LEVEL_ORDER(resolvedPermissionLevel(r)) : r \in resolvePermission(u, n)}

\* this step is a successful addUser
AddUserStep == last'.op = "addUser" /\ last'.err = OK /\ group_members' # group_members

WithoutGrant(u, n) == {g \in page_permissions : ~(g.page_id = n /\ g.user_id = u)}

\* page_permissions with the grant of u on n set to none
WithDenial(u, n) == WithoutGrant(u, n) \cup {GrantRow(n, u, NoId, "none")}

\* what resolvePermission(u, n) returns on these tables
ResolvedWithout(u, n) ==
  resolveIn(page_tree_paths, WithoutGrant(u, n), group_membership_closure, u, n)
ResolvedDenied(u, n) ==
  resolveIn(page_tree_paths, WithDenial(u, n), group_membership_closure, u, n)

\* the remaining grants applicable to u at depth k, and the depths having one
RestGrantsAt(u, n, k) == GrantsAt(u, n, k) \cap WithoutGrant(u, n)
RestDepths(u, n) == {k \in Depths(n) : RestGrantsAt(u, n, k) # {}}

\* the result is the one the closest remaining applicable grant gives, or
\* the fallback when none remains
RevertsToInheritance(u, n) ==
  IF RestDepths(u, n) = {}
  THEN ResolvedWithout(u, n) =
         {IF IsWorkspaceMember(u, n) /\ default_permission[WorkspaceOf(n)] # "none"
          THEN WorkspaceDefault(default_permission[WorkspaceOf(n)])
          ELSE NoAccess}
  ELSE LET D == CHOOSE k \in RestDepths(u, n) : \A j \in RestDepths(u, n) : k <= j
           near == RestGrantsAt(u, n, D)
           own == {g \in near : g.user_id = u}
           level == IF own # {} THEN (CHOOSE g \in own : TRUE).permission
                    ELSE MaxLevel({g.permission : g \in near})
       IN ResolvedWithout(u, n) =
            {IF D = 0 THEN Direct(level, n) ELSE Inherited(level, AncestorAt(n, D), D)}

\* some ancestor of n holds a grant applicable to u of a level above none
AncestorGrantsMore(u, n) ==
  \E k \in Depths(n) \ {0} : \E g \in RestGrantsAt(u, n, k) : g.permission # "none"

\* C15 as stated: removing reverts to inheritance, denying gives direct
\* none, and the two differ whenever an ancestor grants u more than none.
C15_AsStated ==
  \A u \in users, n \in PageIdSet :
    /\ RevertsToInheritance(u, n)
    /\ ResolvedDenied(u, n) = {Direct("none", n)}
    /\ AncestorGrantsMore(u, n) => ResolvedWithout(u, n) # ResolvedDenied(u, n)

\* C15: remove versus deny.  Without u's grant on n, resolvePermission(u, n)
\* is the result of the closest remaining applicable grant, or the fallback;
\* with the grant set to none it is direct with level none; and the two are
\* the same exactly when the groups of u hold grants on n itself whose most
\* permissive level is none.
C15_RemoveVersusDeny ==
  \A u \in users, n \in PageIdSet :
    /\ RevertsToInheritance(u, n)
    /\ ResolvedDenied(u, n) = {Direct("none", n)}
    /\ (ResolvedWithout(u, n) = ResolvedDenied(u, n)) <=>
         /\ RestGrantsAt(u, n, 0) # {}
         /\ \A g \in RestGrantsAt(u, n, 0) : g.permission = "none"

\* u holds a grant on n and a higher one on the parent of n: removing the
\* first would inherit the second, denying gives direct none
C15_Witness ==
  \E u \in users, n \in PageIdSet :
    /\ ParentOf(n) # NoPage
    /\ \E g \in page_permissions : g.page_id = n /\ g.user_id = u /\ g.permission = "read"
    /\ \E g \in page_permissions :
          g.page_id = ParentOf(n) /\ g.user_id = u /\ g.permission = "write"
    /\ resolvePermission(u, n) = {Direct("read", n)}
    /\ ResolvedWithout(u, n) = {Inherited("write", ParentOf(n), 1)}
    /\ ResolvedDenied(u, n) = {Direct("none", n)}

(***************************************************************************)
(* Setting a grant twice.                                                  *)
(***************************************************************************)
\* one row per (page, user) and per (page, group)
AtMostOneGrant ==
  \A g, h \in page_permissions :
    (/\ g.page_id = h.page_id
     /\ \/ g.user_id # NoId /\ g.user_id = h.user_id
        \/ g.group_id # NoId /\ g.group_id = h.group_id) => g = h

\* this step is a setPermission of a level for a grantee on a page that
\* hold that very grant already
SetAgainStep ==
  /\ last'.op = "setPermission"
  /\ Len(last'.args) = 4
  /\ GrantRow(last'.args[1], last'.args[2], last'.args[3], last'.args[4])
       \in page_permissions

\* C16: grant idempotence.  Setting the same level for the same page and
\* grantee a second time changes no row of page_permissions and no result
\* of resolvePermission, and page_permissions always holds at most one row
\* per (page, user) and per (page, group).
C16_GrantIdempotence ==
  /\ []AtMostOneGrant
  /\ [][SetAgainStep =>
          /\ page_permissions' = page_permissions
          /\ \A u \in users, n \in PageIdSet :
               resolvePermission(u, n)' = resolvePermission(u, n)]_vars

\* the grant a group of u1 holds on a page has just been set again with the
\* same level; u1 resolves to it
C16_Witness ==
  /\ last.op = "setPermission" /\ Len(last.args) = 4
  /\ last.args[3] \in GroupsOf("u1")
  /\ GrantRow(last.args[1], last.args[2], last.args[3], last.args[4]) \in page_permissions
  /\ resolvePermission("u1", last.args[1]) = {Direct(last.args[4], last.args[1])}

\* C17: determinism.  In every state resolvePermission(u, n) has exactly
\* one possible result (kind, level, source page and depth), whichever of
\* the rows tied in the ORDER BY the query returns first.
C17_Determinism ==
  \A u \in users, n \in PageIdSet : Cardinality(resolvePermission(u, n)) = 1

\* two groups of u hold grants of the same level on the winning page, an
\* ancestor of n, with no user grant there: the rows tie and the result is one
C17_Witness ==
  \E u \in users, n \in PageIdSet :
    /\ MatchDepths(u, n) # {}
    /\ WinDepth(u, n) > 0
    /\ LET winners == GrantsAt(u, n, WinDepth(u, n))
       IN /\ Cardinality(winners) = 2
          /\ \A g \in winners : g.user_id = NoId
          /\ Cardinality({g.permission : g \in winners}) = 1
          /\ \E g \in winners :
                resolvePermission(u, n) =
                  {Inherited(g.permission, g.page_id, WinDepth(u, n))}

\* C18: the workspace default is a last resort, not a floor.  Whenever a
\* grant applicable to u lies on the ancestor chain of n, a grant of none
\* included, resolvePermission(u, n) is direct or inherited, never
\* workspace_default, and carries the level of an applicable grant at the
\* closest granted depth, also when the workspace default is higher.
C18_DefaultIsLastResort ==
  \A u \in users, n \in PageIdSet :
    MatchDepths(u, n) # {} =>
      \A r \in resolvePermission(u, n) :
        /\ r.kind \in {"direct", "inherited"}
        /\ r.level \in {g.permission : g \in GrantsAt(u, n, WinDepth(u, n))}

\* u is a member of n's workspace, whose default is full_access; the only
\* applicable grant, on an ancestor of n, is none, and the result is none
C18_Witness ==
  \E u \in users, n \in PageIdSet :
    /\ IsWorkspaceMember(u, n)
    /\ default_permission[WorkspaceOf(n)] = "full_access"
    /\ MatchDepths(u, n) = {1}
    /\ \A g \in GrantsAt(u, n, 1) : g.permission = "none"
    /\ resolvePermission(u, n) = {Inherited("none", ParentOf(n), 1)}

\* C19: with no applicable grant on the chain and a workspace default of
\* none, a member of the workspace gets no_access; and a result of kind
\* workspace_default always carries read, write or full_access.
C19_NoneDefaultIsNoAccess ==
  \A u \in users, n \in PageIdSet :
    /\ (/\ MatchDepths(u, n) = {}
        /\ IsWorkspaceMember(u, n)
        /\ default_permission[WorkspaceOf(n)] = "none")
         => resolvePermission(u, n) = {NoAccess}
    /\ \A r \in resolvePermission(u, n) :
         r.kind = "workspace_default" => r.level \in {"read", "write", "full_access"}

\* u is a member of the workspaces of two ungranted pages: the default of
\* one is none and u has no access, the default of the other is returned
C19_Witness ==
  \E u \in users, n \in PageIdSet, m \in PageIdSet :
    /\ MatchDepths(u, n) = {} /\ MatchDepths(u, m) = {}
    /\ IsWorkspaceMember(u, n) /\ IsWorkspaceMember(u, m)
    /\ default_permission[WorkspaceOf(n)] = "none"
    /\ default_permission[WorkspaceOf(m)] = "full_access"
    /\ resolvePermission(u, n) = {NoAccess}
    /\ resolvePermission(u, m) = {WorkspaceDefault("full_access")}

(***************************************************************************)
(* Failing calls.                                                          *)
(***************************************************************************)
\* this step is a call of one of the mutations that threw
FailedMutationStep ==
  /\ last'.op \in {"movePage", "addUser", "removeUser", "nestGroup", "unnestGroup"}
  /\ last'.err # OK

\* C20: no partial changes on error.  A movePage, addUser, removeUser,
\* nestGroup or unnestGroup that throws leaves pages, page_tree_paths,
\* group_members, group_ancestor_paths and group_membership_closure exactly
\* as they were before the call.
C20_NoPartialChanges ==
  [][FailedMutationStep => UNCHANGED <<pageVars, groupVars>>]_vars

\* a move of a page with a child under a page that does not exist has just
\* failed, while a user is a member of a group nested in another
C20_Witness ==
  /\ last.op = "movePage" /\ last.err = "NotFoundError"
  /\ last.args[1] \in PageIdSet
  /\ last.args[2] \notin PageIdSet \cup {NoPage}
  /\ \E d \in PageIdSet : ParentOf(d) = last.args[1]
  /\ \E r \in page_tree_paths : r.depth = 1
  /\ \E m \in group_members : m.child_group_id # NoId
  /\ group_membership_closure # {}

(***************************************************************************)
(* Error kinds.                                                            *)
(***************************************************************************)
\* the class of the error a call threw: the name the error classes of
\* errors.ts set
ErrorKind(err) ==
  CASE err \in {"InvariantViolation: under itself",
                "InvariantViolation: under one of its own descendants"}
         -> "InvariantViolation"
    [] err \in {"ConflictError: Cycle detected", "ConflictError: already nested",
                "ConflictError: already a member"}
         -> "ConflictError"
    [] OTHER -> err

\* C21: cycle errors.  A movePage of a page under itself or under one of its
\* descendants, and a nestGroup of a group into itself or into one of its
\* descendants, is reported as a CycleError, a kind other than
\* InvariantViolation, NotFoundError and ConflictError.
C21_CycleError ==
  /\ \A p \in PageIdSet, q \in PageIdSet :
       (q = p \/ p \in ProperAncestors(q)) =>
         ErrorKind(MoveOutcome(p, q)) = "CycleError"
  /\ \A g \in groups, c \in groups :
       (c = g \/ g \in NestedBelow({c}, Cardinality(groups))) =>
         ErrorKind(NestOutcome(g, c)) = "CycleError"

(***************************************************************************)
(* Calls that run concurrently.  Every call has its own connection; a call *)
(* with a transaction (db.transaction of withTransaction) commits its      *)
(* writes together at the end.  The isolation is the one the connection    *)
(* has when nothing sets it (knexfile.ts sets none): READ COMMITTED.  A    *)
(* statement reads the committed rows and the rows its own transaction     *)
(* wrote; a DELETE or UPDATE of a row another transaction has written, or  *)
(* an INSERT of a key another transaction has written, waits until that    *)
(* transaction has ended.                                                  *)
(***************************************************************************)
OtherConnection(t) == CHOOSE o \in Connections : o # t

\* page_tree_paths as a statement of transaction t reads it
PathsSeenBy(t) ==
  (page_tree_paths \ transactions[t].deleted) \cup transactions[t].inserted

PathKeys(rows) == {<<r.ancestor_id, r.descendant_id>> : r \in rows}

\* the call ends: what it has not committed is dropped with its transaction
EndCall(t, call) ==
  /\ transactions' = [transactions EXCEPT ![t] =
       [NoTransaction EXCEPT !.op = transactions[t].op, !.pc = "done",
                             !.args = transactions[t].args,
                             !.before = transactions[t].before,
                             !.result = transactions[t].result]]
  /\ last' = call

MoveThrows(t, err) ==
  LET pageId == transactions[t].args[1]
      oldParentId == IF pageId \in PageIdSet THEN ParentOf(pageId) ELSE NoPage
  IN /\ EndCall(t, MoveCall(pageId, transactions[t].args[2], oldParentId, err))
     /\ UNCHANGED <<pageVars, page_permissions, groupVars, wsVars>>

MoveGoesTo(t, pc) ==
  /\ transactions' = [transactions EXCEPT ![t].pc = pc]
  /\ UNCHANGED <<pageVars, page_permissions, groupVars, wsVars, last>>

\* movePage, lines 20-25: the transaction begins, the page is looked up and
\* compared with the new parent
MoveCheckPage(t, pageId, newParentId) ==
  /\ transactions[t].pc = "idle"
  /\ IF pageId \notin PageIdSet
     THEN /\ transactions' = [transactions EXCEPT ![t] =
                [NoTransaction EXCEPT !.op = "movePage", !.pc = "done",
                                      !.args = <<pageId, newParentId>>]]
          /\ last' = MoveCall(pageId, newParentId, NoPage, "NotFoundError")
     ELSE IF pageId = newParentId
     THEN /\ transactions' = [transactions EXCEPT ![t] =
                [NoTransaction EXCEPT !.op = "movePage", !.pc = "done",
                                      !.args = <<pageId, newParentId>>]]
          /\ last' = MoveCall(pageId, newParentId, ParentOf(pageId),
                              "InvariantViolation: under itself")
     ELSE /\ transactions' = [transactions EXCEPT ![t] =
                [NoTransaction EXCEPT !.op = "movePage",
                                      !.pc = IF newParentId # NoPage
                                             THEN "checkParent" ELSE "step1",
                                      !.args = <<pageId, newParentId>>]]
          /\ UNCHANGED last
  /\ UNCHANGED <<pageVars, page_permissions, groupVars, wsVars>>

\* lines 27-30: the new parent is looked up
MoveCheckParent(t) ==
  /\ transactions[t].op = "movePage" /\ transactions[t].pc = "checkParent"
  /\ IF transactions[t].args[2] \notin PageIdSet
     THEN MoveThrows(t, "NotFoundError")
     ELSE MoveGoesTo(t, "checkCycle")

\* lines 32-37: the new parent must not be a descendant of the page
MoveCheckCycle(t) ==
  /\ transactions[t].op = "movePage" /\ transactions[t].pc = "checkCycle"
  /\ IF \E r \in PathsSeenBy(t) : /\ r.ancestor_id = transactions[t].args[1]
                                  /\ r.descendant_id = transactions[t].args[2]
     THEN MoveThrows(t, "InvariantViolation: under one of its own descendants")
     ELSE MoveGoesTo(t, "step1")

\* Step 1: the descendants are read
MoveStep1(t) ==
  /\ transactions[t].op = "movePage" /\ transactions[t].pc = "step1"
  /\ transactions' = [transactions EXCEPT
       ![t].descendants = {r \in PathsSeenBy(t) :
                             r.ancestor_id = transactions[t].args[1]},
       ![t].pc = "step2"]
  /\ UNCHANGED <<pageVars, page_permissions, groupVars, wsVars, last>>

MoveAfterStep2(t) == IF transactions[t].args[2] # NoPage THEN "step3" ELSE "step4"

\* Step 2: the DELETE.  It finds its rows among the rows it can read; when
\* the other transaction has deleted one of them, it waits
MoveStep2(t) ==
  LET tr == transactions[t]
      descendantIds == {d.descendant_id : d \in tr.descendants}
      found == PathsSeenBy(t) \ MoveDelete(PathsSeenBy(t), descendantIds)
  IN /\ tr.op = "movePage" /\ tr.pc = "step2"
     /\ IF found \cap transactions[OtherConnection(t)].deleted # {}
        THEN transactions' = [transactions EXCEPT ![t].waiting = found,
                                                  ![t].pc = "step2 waits"]
        ELSE transactions' = [transactions EXCEPT ![t].deleted = found,
                                                  ![t].pc = MoveAfterStep2(t)]
     /\ UNCHANGED <<pageVars, page_permissions, groupVars, wsVars, last>>

\* the other transaction has ended: the DELETE goes on with the rows it had
\* found, those that are still there
MoveStep2Resumes(t) ==
  LET tr == transactions[t]
  IN /\ tr.op = "movePage" /\ tr.pc = "step2 waits"
     /\ tr.waiting \cap transactions[OtherConnection(t)].deleted = {}
     /\ transactions' = [transactions EXCEPT
          ![t].deleted = tr.waiting \cap page_tree_paths,
          ![t].waiting = {},
          ![t].pc = MoveAfterStep2(t)]
     /\ UNCHANGED <<pageVars, page_permissions, groupVars, wsVars, last>>

\* Step 3, the SELECT: the ancestors of the new parent are read
MoveStep3Select(t) ==
  /\ transactions[t].op = "movePage" /\ transactions[t].pc = "step3"
  /\ transactions' = [transactions EXCEPT
       ![t].newAncestors = {r \in PathsSeenBy(t) :
                              r.descendant_id = transactions[t].args[2]},
       ![t].pc = "step3 insert"]
  /\ UNCHANGED <<pageVars, page_permissions, groupVars, wsVars, last>>

\* Step 3, the INSERT.  It waits while the other transaction holds one of
\* its keys (a row inserted or deleted and not committed); it fails on a key
\* that is there
MoveStep3Insert(t) ==
  LET tr == transactions[t]
      other == transactions[OtherConnection(t)]
      newPaths == MoveNewPaths(tr.newAncestors, tr.args[2], tr.descendants)
  IN /\ tr.op = "movePage" /\ tr.pc = "step3 insert"
     /\ PathKeys(newPaths) \cap PathKeys(other.inserted \cup other.deleted) = {}
     /\ IF PathKeys(newPaths) \cap PathKeys(PathsSeenBy(t)) # {}
        THEN MoveThrows(t, "DbError")
        ELSE /\ transactions' = [transactions EXCEPT
                  ![t].inserted = newPaths, ![t].pc = "step4"]
             /\ UNCHANGED <<pageVars, page_permissions, groupVars, wsVars, last>>

\* Step 4: the UPDATE of pages.  It waits while the other transaction has
\* updated the same row
MoveStep4(t) ==
  LET tr == transactions[t]
      other == transactions[OtherConnection(t)]
  IN /\ tr.op = "movePage" /\ tr.pc = "step4"
     /\ ~(other.updated /\ other.args[1] = tr.args[1])
     /\ transactions' = [transactions EXCEPT ![t].updated = TRUE, ![t].pc = "commit"]
     /\ UNCHANGED <<pageVars, page_permissions, groupVars, wsVars, last>>

\* the callback of db.transaction returns: COMMIT
MoveCommit(t) ==
  LET tr == transactions[t]
  IN /\ tr.op = "movePage" /\ tr.pc = "commit"
     /\ page_tree_paths' = (page_tree_paths \ tr.deleted) \cup tr.inserted
     /\ pages' = {IF p.id = tr.args[1]
                  THEN [p EXCEPT !.parent_id = tr.args[2]] ELSE p : p \in pages}
     /\ EndCall(t, MoveCall(tr.args[1], tr.args[2], ParentOf(tr.args[1]), OK))
     /\ UNCHANGED <<page_permissions, groupVars, wsVars>>

(* Two movePage calls at a time, on a forest of RacePages pages whose rows
   were inserted parents first. *)
RacePages == 3

\* page_tree_paths after the pages 1..n were inserted in this order
RECURSIVE PathsAfterInserts(_, _)
PathsAfterInserts(parents, n) ==
  IF n = 0 THEN {}
  ELSE maintain_page_tree_insert(PathsAfterInserts(parents, n - 1), n, parents[n])

InitRace ==
  /\ \E parents \in [1..RacePages -> 0..RacePages] :
       /\ \A id \in 1..RacePages : parents[id] < id
       /\ pages = {[id |-> id, parent_id |-> parents[id], workspace_id |-> "w1"] :
                     id \in 1..RacePages}
       /\ page_tree_paths = PathsAfterInserts(parents, RacePages)
  /\ page_permissions = {}
  /\ group_members = {}
  /\ group_ancestor_paths = {}
  /\ group_membership_closure = {}
  /\ default_permission = [w \in Workspaces |-> "none"]
  /\ workspace_members = {}
  /\ last = Call("init", OK)
  /\ transactions = NoTransactions

NextRaceMove ==
  \/ \E t \in Connections, pageId \in 1..RacePages + 1, newParentId \in 0..RacePages + 1 :
       MoveCheckPage(t, pageId, newParentId)
  \/ \E t \in Connections : MoveCheckParent(t)
  \/ \E t \in Connections : MoveCheckCycle(t)
  \/ \E t \in Connections : MoveStep1(t)
  \/ \E t \in Connections : MoveStep2(t)
  \/ \E t \in Connections : MoveStep2Resumes(t)
  \/ \E t \in Connections : MoveStep3Select(t)
  \/ \E t \in Connections : MoveStep3Insert(t)
  \/ \E t \in Connections : MoveStep4(t)
  \/ \E t \in Connections : MoveCommit(t)

SpecRaceMove == InitRace /\ [][NextRaceMove]_vars

\* C22: concurrent moves keep the forest sound.  Whatever the interleaving
\* of the statements of two movePage calls, each in its own transaction,
\* the committed parent pointers are acyclic and the committed
\* page_tree_paths is the closure of parent_id.
C22_ConcurrentMoves ==
  /\ ParentsAcyclic
  /\ page_tree_paths = ClosureOfParents

(***************************************************************************)
(* GroupMembershipService.nestGroup, statement by statement, called with a *)
(* transaction.                                                            *)
(***************************************************************************)
\* the group tables as a statement of transaction t reads them
MembersSeenBy(t) == group_members \cup transactions[t].members
AncestrySeenBy(t) == group_ancestor_paths \cup transactions[t].ancestry
MembershipSeenBy(t) == group_membership_closure \cup transactions[t].membership

GapKeys(rows) == {<<r.ancestor_group_id, r.descendant_group_id>> : r \in rows}

NestThrows(t, err) ==
  /\ EndCall(t, Call("nestGroup", err))
  /\ UNCHANGED <<pageVars, page_permissions, groupVars, wsVars>>

\* nestGroup, lines 80-81: the transaction begins, the parent group is
\* looked up
NestCheckParent(t, parentGroupId, childGroupId) ==
  /\ transactions[t].pc = "idle"
  /\ IF parentGroupId \notin groups
     THEN /\ transactions' = [transactions EXCEPT ![t] =
                [NoTransaction EXCEPT !.op = "nestGroup", !.pc = "done",
                                      !.args = <<parentGroupId, childGroupId>>]]
          /\ last' = Call("nestGroup", "NotFoundError")
     ELSE /\ transactions' = [transactions EXCEPT ![t] =
                [NoTransaction EXCEPT !.op = "nestGroup", !.pc = "checkChild",
                                      !.args = <<parentGroupId, childGroupId>>]]
          /\ UNCHANGED last
  /\ UNCHANGED <<pageVars, page_permissions, groupVars, wsVars>>

\* lines 83-84: the child group is looked up
NestCheckChild(t) ==
  /\ transactions[t].op = "nestGroup" /\ transactions[t].pc = "checkChild"
  /\ IF transactions[t].args[2] \notin groups
     THEN NestThrows(t, "NotFoundError")
     ELSE /\ transactions' = [transactions EXCEPT ![t].pc = "before insert"]
          /\ UNCHANGED <<pageVars, page_permissions, groupVars, wsVars, last>>

\* the INSERT of lines 87-90 begins: prevent_group_cycle, BEFORE INSERT,
\* reads group_ancestor_paths
NestBeforeInsert(t) ==
  LET tr == transactions[t]
  IN /\ tr.op = "nestGroup" /\ tr.pc = "before insert"
     /\ IF prevent_group_cycle(AncestrySeenBy(t), tr.args[1], tr.args[2])
        THEN NestThrows(t, "ConflictError: Cycle detected")
        ELSE /\ transactions' = [transactions EXCEPT ![t].pc = "insert"]
             /\ UNCHANGED <<pageVars, page_permissions, groupVars, wsVars, last>>

\* the row is inserted and the AFTER INSERT triggers run.  The INSERT waits
\* while the other transaction holds the same edge, and the triggers wait
\* while it holds one of their keys
NestInsert(t) ==
  LET tr == transactions[t]
      other == transactions[OtherConnection(t)]
      row == MemberRow(tr.args[1], NoId, tr.args[2])
      gap == maintain_group_ancestor_insert(AncestrySeenBy(t), tr.args[1], tr.args[2])
      gmc == maintain_group_membership_insert(MembershipSeenBy(t), gap,
               tr.args[1], NoId, tr.args[2])
  IN /\ tr.op = "nestGroup" /\ tr.pc = "insert"
     /\ row \notin other.members
     /\ GapKeys(gap \ AncestrySeenBy(t)) \cap GapKeys(other.ancestry) = {}
     /\ (gmc \ MembershipSeenBy(t)) \cap other.membership = {}
     /\ IF MemberUniqueViolation(MembersSeenBy(t), tr.args[1], NoId, tr.args[2])
        THEN NestThrows(t, "ConflictError: already nested")
        ELSE /\ transactions' = [transactions EXCEPT
                  ![t].members = {row},
                  ![t].ancestry = gap \ group_ancestor_paths,
                  ![t].membership = gmc \ group_membership_closure,
                  ![t].pc = "commit"]
             /\ UNCHANGED <<pageVars, page_permissions, groupVars, wsVars, last>>

\* COMMIT
NestCommit(t) ==
  LET tr == transactions[t]
  IN /\ tr.op = "nestGroup" /\ tr.pc = "commit"
     /\ group_members' = group_members \cup tr.members
     /\ group_ancestor_paths' = group_ancestor_paths \cup tr.ancestry
     /\ group_membership_closure' = group_membership_closure \cup tr.membership
     /\ EndCall(t, Call("nestGroup", OK))
     /\ UNCHANGED <<pageVars, page_permissions, wsVars>>

(* Two nestGroup calls at a time, after any nestings made one at a time. *)
NextRaceNest ==
  \/ \E g \in GroupIds, c \in GroupIds :
       /\ \A t \in Connections : transactions[t].pc = "idle"
       /\ NestGroup(g, c)
  \/ \E t \in Connections, g \in GroupIds, c \in GroupIds : NestCheckParent(t, g, c)
  \/ \E t \in Connections : NestCheckChild(t)
  \/ \E t \in Connections : NestBeforeInsert(t)
  \/ \E t \in Connections : NestInsert(t)
  \/ \E t \in Connections : NestCommit(t)

SpecRaceNest == InitGroup /\ [][NextRaceNest]_vars

\* C23: concurrent nests cannot create a cycle.  Whatever the interleaving
\* of the statements of two nestGroup transactions, each passing
\* prevent_group_cycle on the rows it can read, the committed nesting edges
\* of group_members are acyclic.
C23_ConcurrentNests == NestingAcyclic

(***************************************************************************)
(* PermissionService.resolvePermission, statement by statement.  The       *)
(* repository runs its queries on this.db, outside any transaction.        *)
(***************************************************************************)
\* mutant: a read that sees what the transactions in flight have written
PathsReadOutside_Dirty ==
  (page_tree_paths \ UNION {transactions[t].deleted : t \in Connections})
    \cup UNION {transactions[t].inserted : t \in Connections}

\* page_tree_paths as a statement outside the transactions reads it: the
\* committed rows
PathsReadOutside == page_tree_paths

\* Step 1: resolveFromPageTree; a row ends the call
ResolveReadTree(t, userId, pageId) ==
  /\ transactions[t].pc = "idle"
  /\ LET rows == resolveFromPageTree(PathsReadOutside, page_permissions,
                   group_membership_closure, userId, pageId)
         started == [NoTransaction EXCEPT !.op = "resolvePermission",
                                          !.args = <<userId, pageId>>,
                                          !.before = resolvePermission(userId, pageId)]
     IN IF rows = {}
        THEN /\ transactions' = [transactions EXCEPT ![t] =
                  [started EXCEPT !.pc = "workspaceDefault"]]
             /\ UNCHANGED last
        ELSE \E row \in rows :
               /\ transactions' = [transactions EXCEPT ![t] =
                    [started EXCEPT !.pc = "done", !.row = {row},
                                    !.result = {ShapeRow(row)}]]
               /\ last' = Call("resolvePermission", OK)
  /\ UNCHANGED <<pageVars, page_permissions, groupVars, wsVars>>

\* Step 2 and Step 3: getWorkspaceDefault, or no access
ResolveFallback(t) ==
  LET tr == transactions[t]
  IN /\ tr.op = "resolvePermission" /\ tr.pc = "workspaceDefault"
     /\ transactions' = [transactions EXCEPT
          ![t].result = {Fallback(getWorkspaceDefault(tr.args[1], tr.args[2]))},
          ![t].pc = "done"]
     /\ last' = Call("resolvePermission", OK)
     /\ UNCHANGED <<pageVars, page_permissions, groupVars, wsVars>>

(* A movePage on one connection and a resolvePermission of u1 on the
   other; u1 is a member of the workspace, whose default is read, and holds
   grants on up to RaceGrants pages. *)
RaceGrants == 2

InitRaceRead ==
  /\ \E parents \in [1..RacePages -> 0..RacePages] :
       /\ \A id \in 1..RacePages : parents[id] < id
       /\ pages = {[id |-> id, parent_id |-> parents[id], workspace_id |-> "w1"] :
                     id \in 1..RacePages}
       /\ page_tree_paths = PathsAfterInserts(parents, RacePages)
  /\ \E granted \in SUBSET (1..RacePages) :
       /\ Cardinality(granted) <= RaceGrants
       /\ \E level \in [granted -> {"write", "full_access"}] :
            page_permissions = {GrantRow(p, "u1", NoId, level[p]) : p \in granted}
  /\ group_members = {}
  /\ group_ancestor_paths = {}
  /\ group_membership_closure = {}
  /\ default_permission = [w \in Workspaces |-> IF w = "w1" THEN "read" ELSE "none"]
  /\ workspace_members = {[workspace_id |-> "w1", user_id |-> "u1"]}
  /\ last = Call("init", OK)
  /\ transactions = NoTransactions

NextRaceRead ==
  \/ \E pageId \in 1..RacePages, newParentId \in 0..RacePages :
       MoveCheckPage("t1", pageId, newParentId)
  \/ MoveCheckParent("t1")
  \/ MoveCheckCycle("t1")
  \/ MoveStep1("t1")
  \/ MoveStep2("t1")
  \/ MoveStep3Select("t1")
  \/ MoveStep3Insert("t1")
  \/ MoveStep4("t1")
  \/ MoveCommit("t1")
  \/ \E pageId \in 1..RacePages : ResolveReadTree("t2", "u1", pageId)
  \/ ResolveFallback("t2")

SpecRaceRead == InitRaceRead /\ [][NextRaceRead]_vars

\* C24: reads never see a half-written move.  A resolvePermission(u, n)
\* that ran while a movePage transaction was in flight has returned what
\* resolution gives on the committed state it started in or what it gives on
\* the committed state now, which is the state before the move or the state
\* after it.
C24_ReadsSeeWholeMoves ==
  \A t \in Connections :
    (transactions[t].op = "resolvePermission" /\ transactions[t].pc = "done") =>
      transactions[t].result \subseteq
        transactions[t].before
          \cup resolvePermission(transactions[t].args[1], transactions[t].args[2])

\* u1 has been given the grant it inherits from the old parent, while the
\* move has deleted the old paths of the page and not yet inserted the new
C24_Witness ==
  /\ transactions["t2"].op = "resolvePermission" /\ transactions["t2"].pc = "done"
  /\ \E r \in transactions["t2"].result : r.kind = "inherited"
  /\ transactions["t1"].pc = "step3 insert"
  /\ \E d \in transactions["t1"].deleted :
       /\ d.descendant_id = transactions["t2"].args[2]
       /\ \E r \in transactions["t2"].result : r.page = d.ancestor_id

(***************************************************************************)
(* Removals, stated on group_members.                                      *)
(***************************************************************************)
\* the users with a path into h: direct members of h or of a group reached
\* from h through the nesting edges
ReachingUsers(h) == UNION {DirectMembers(x) : x \in NestedOrSelf(h)}

\* this step is a successful unnestGroup(g, c)
UnnestStep(g, c) ==
  /\ last'.op = "unnestGroup" /\ last'.err = OK
  /\ MemberRow(g, NoId, c) \in group_members \ group_members'

\* C26: unnest revokes membership.  After a successful unnestGroup(g, c), a
\* user that group_membership_closure recorded for g or for an ancestor of
\* g, and that has no path left into that group through the remaining rows
\* of group_members, is no longer recorded for it.
C26_UnnestRevokes ==
  [][\A g \in groups, c \in groups :
       UnnestStep(g, c) =>
         \A h \in groups, u \in users :
           (/\ g \in NestedOrSelf(h)'
            /\ GmcRow(h, u) \in group_membership_closure
            /\ u \notin ReachingUsers(h)') =>
             GmcRow(h, u) \notin group_membership_closure']_vars

\* the closure the remaining nesting edges define when every group has its
\* self row: the self rows and a row for every pair joined by one or more
\* edges, its depth the length of the shortest chain of edges
RECURSIVE NestDistance(_, _, _)
NestDistance(S, d, k) ==
  IF d \in S THEN k
  ELSE NestDistance(UNION {NestedIn(g) : g \in S}, d, k + 1)

\* C27: unnest rebuilds group ancestry.  After a successful unnestGroup,
\* group_ancestor_paths has a row for (a, d) with a # d exactly when d is
\* reached from a through the remaining nesting edges, with the length of
\* the shortest chain as its depth, and has every self row it had before
\* the call; the rebuild loop ends without an error.
C27_UnnestRebuildsAncestry ==
  [][\A g \in groups, c \in groups :
       (/\ last'.op = "unnestGroup"
        /\ MemberRow(g, NoId, c) \in group_members \ group_members') =>
         /\ last'.err = OK
         /\ {x \in GapPairs' : x[1] # x[2]} = NestingPairs'
         /\ \A r \in group_ancestor_paths' :
              r.ancestor_group_id # r.descendant_group_id =>
                r.depth = NestDistance({r.ancestor_group_id}, r.descendant_group_id, 0)'
         /\ {r \in group_ancestor_paths' : r.ancestor_group_id = r.descendant_group_id}
              = {r \in group_ancestor_paths : r.ancestor_group_id = r.descendant_group_id}]_vars

\* an unnestGroup has just succeeded, and group_ancestor_paths has at depth
\* 2 a group that another holds through a third group and not directly
C27_Witness ==
  /\ last.op = "unnestGroup" /\ last.err = OK
  /\ \E a \in groups, d \in groups :
       /\ d \notin NestedIn(a)
       /\ \E m \in groups : m \in NestedIn(a) /\ d \in NestedIn(m)
       /\ GapRow(a, d, 2) \in group_ancestor_paths

\* the rows group_membership_closure holds for u, and for the users other
\* than u
RowsOf(gmc, u) == {r \in gmc : r.user_id = u}
RowsOfOthers(gmc, u) == {r \in gmc : r.user_id # u}

\* this step is a successful removeUser(g, u)
RemoveUserStep(g, u) ==
  /\ last'.op = "removeUser" /\ last'.err = OK
  /\ MemberRow(g, u, NoId) \in group_members \ group_members'

\* C28: removeUser rebuilds the user's membership.  After a successful
\* removeUser(g, u), group_membership_closure holds (h, u) exactly for the
\* groups h that u is a direct member of, or that hold such a group through
\* the nesting edges, in the remaining rows of group_members; the rows of
\* every other user are as before.
C28_RemoveUserRebuilds ==
  [][\A g \in groups, u \in users :
       RemoveUserStep(g, u) =>
         /\ RowsOf(group_membership_closure, u)' = {GmcRow(h, u) : h \in MemberGroups(u)'}
         /\ RowsOfOthers(group_membership_closure, u)'
              = RowsOfOthers(group_membership_closure, u)]_vars

\* a removeUser has just succeeded; u is a direct member of h, c is nested
\* in g, u is a direct member of neither, and group_membership_closure,
\* equal to what the base rows define, records u for h and not for g
C28_Witness ==
  /\ last.op = "removeUser" /\ last.err = OK
  /\ \E u \in users, h \in groups, c \in groups, g \in groups :
       /\ h # c /\ h # g /\ c \in NestedIn(g)
       /\ u \in DirectMembers(h)
       /\ u \notin DirectMembers(c) \cup DirectMembers(g)
       /\ GmcRow(h, u) \in group_membership_closure
       /\ GmcRow(g, u) \notin group_membership_closure
       /\ group_membership_closure = MembershipOfEdges

\* the groups that hold g through one or more nesting edges
GroupsAbove(g) == {a \in groups : g \in NestedBelow({a}, Cardinality(groups))}

\* this step is a successful addUser(g, u)
AddUserTo(g, u) ==
  /\ AddUserStep
  /\ MemberRow(g, u, NoId) \in group_members' \ group_members

\* C29: what addUser changes.  A successful addUser(g, u) removes no row of
\* group_membership_closure, leaves it with the rows (g, u) and (a, u) for
\* every group a that holds g through the nesting edges, adds no other row,
\* and leaves group_ancestor_paths as it was.
C29_AddUserFrame ==
  [][\A g \in groups, u \in users :
       AddUserTo(g, u) =>
         LET rows == {GmcRow(a, u) : a \in {g} \cup GroupsAbove(g)}
         IN /\ group_membership_closure \subseteq group_membership_closure'
            /\ rows \subseteq group_membership_closure'
            /\ group_membership_closure' \ group_membership_closure \subseteq rows
            /\ UNCHANGED group_ancestor_paths]_vars

\* a user has just joined a group nested two levels deep, beside another
\* user's rows, and is recorded for the group and the two groups above it
C29_Witness ==
  /\ last.op = "addUser" /\ last.err = OK
  /\ \E u \in users, v \in users, g \in groups, m \in groups, a \in groups :
       /\ u # v
       /\ RowsOf(group_membership_closure, v) # {}
       /\ g \in NestedIn(m) /\ m \in NestedIn(a)
       /\ DirectMembers(g) = {u} /\ u \notin DirectMembers(m) \cup DirectMembers(a)
       /\ v \notin DirectMembers(g)
       /\ {GmcRow(g, u), GmcRow(m, u), GmcRow(a, u)} \subseteq group_membership_closure

\* this step is a successful nestGroup(g, c)
NestStep(g, c) ==
  /\ last'.op = "nestGroup" /\ last'.err = OK
  /\ MemberRow(g, NoId, c) \in group_members' \ group_members

\* C30: nest propagates membership.  After a successful nestGroup(g, c),
\* every user that is a direct member of c or of a group nested below c is
\* recorded in group_membership_closure for g and for every group that holds
\* g; no row is removed, and every row added is a row of such a user for g
\* or for a group that holds g.
C30_NestPropagates ==
  [][\A g \in groups, c \in groups :
       NestStep(g, c) =>
         LET rows == {GmcRow(a, u) : a \in {g} \cup GroupsAbove(g),
                                     u \in ReachingUsers(c)}
         IN /\ rows \subseteq group_membership_closure'
            /\ group_membership_closure \subseteq group_membership_closure'
            /\ group_membership_closure' \ group_membership_closure \subseteq rows]_vars

(***************************************************************************)
(* What a page creation and a move change.                                 *)
(***************************************************************************)
\* this step inserted the page p with the parent q
CreateStep(p, q) ==
  /\ last'.op = "createPage"
  /\ p \notin PageIdSet
  /\ [id |-> p, parent_id |-> q, workspace_id |-> "w1"] \in pages'

\* C31: copy-on-create.  Inserting page p with parent q adds to
\* page_tree_paths exactly the self row (p, p, 0) and one row (a, p, k + 1)
\* for every row (a, q, k) it held, only the self row when p has no parent,
\* and removes or changes no row.
C31_CopyOnCreate ==
  [][\A p \in PageIds, q \in PageIds \cup {NoPage} :
       CreateStep(p, q) =>
         /\ page_tree_paths \subseteq page_tree_paths'
         /\ page_tree_paths' \ page_tree_paths =
              {PathRow(p, p, 0)} \cup
              {PathRow(r.ancestor_id, p, r.depth + 1) :
                 r \in {x \in page_tree_paths : x.descendant_id = q}}]_vars

\* a page has just been created under a page that has a parent: it has its
\* self row and rows at depth 1 and 2
C31_Witness ==
  /\ last.op = "createPage"
  /\ \E p \in PageIdSet :
       /\ ParentOf(p) # NoPage
       /\ ParentOf(ParentOf(p)) # NoPage
       /\ ~\E d \in PageIdSet : ParentOf(d) = p
       /\ {PathRow(p, p, 0), PathRow(ParentOf(p), p, 1),
           PathRow(ParentOf(ParentOf(p)), p, 2)} \subseteq page_tree_paths

\* this step is a successful movePage
MoveSucceeded == last'.op = "movePage" /\ last'.err = OK

\* the rows of paths inside the set S of pages, and the rows into S from
\* outside it
RowsInside(paths, S) == {r \in paths : r.ancestor_id \in S /\ r.descendant_id \in S}
RowsInto(paths, S) == {r \in paths : r.ancestor_id \notin S /\ r.descendant_id \in S}

\* C32: movePage frame.  A successful movePage(n, q) leaves every row of
\* page_tree_paths inside n's subtree and every row whose descendant is
\* outside it as it was, changes parent_id of n only, and leaves as the
\* rows into the subtree exactly the rows (a, d, i + 1 + j) for a row
\* (n, d, j) and a row (a, q, i); when q is null there is none.
C32_MoveFrame ==
  [][MoveSucceeded =>
       LET n == last'.args[1]
           q == last'.args[2]
           S == Subtree(n)
       IN /\ RowsInside(page_tree_paths', S) = RowsInside(page_tree_paths, S)
          /\ {r \in page_tree_paths' : r.descendant_id \notin S}
               = {r \in page_tree_paths : r.descendant_id \notin S}
          /\ pages' = {IF p.id = n THEN [p EXCEPT !.parent_id = q] ELSE p : p \in pages}
          /\ RowsInto(page_tree_paths', S) =
               {PathRow(x[1].ancestor_id, x[2].descendant_id,
                        x[1].depth + 1 + x[2].depth) :
                  x \in {y \in page_tree_paths \X page_tree_paths :
                           /\ y[1].descendant_id = q
                           /\ y[2].ancestor_id = n}}
          /\ q = NoPage => RowsInto(page_tree_paths', S) = {}]_vars

\* a page with a child and a parent has just been moved under a page that
\* has a parent of its own
C32_Witness ==
  /\ last.op = "movePage" /\ last.err = OK
  /\ LET n == last.args[1]
         q == last.args[2]
     IN /\ q # NoPage /\ last.args[3] \notin {q, NoPage}
        /\ ParentOf(q) # NoPage
        /\ \E d \in PageIdSet : ParentOf(d) = n /\ PathRow(ParentOf(q), d, 3) \in page_tree_paths

(***************************************************************************)
(* GroupMembershipService.unnestGroup called without a transaction         *)
(* (conn = this.db): every statement commits on its own, and calls on the  *)
(* other connections run between them.                                     *)
(***************************************************************************)
UnnestGoesTo(t, pc) == transactions' = [transactions EXCEPT ![t].pc = pc]

\* lines 114-121: the DELETE, with maintain_group_membership_delete
UnnestDelete(t, parentGroupId, childGroupId) ==
  LET deleted == {m \in group_members :
                    m.group_id = parentGroupId /\ m.child_group_id = childGroupId}
      remaining == group_members \ deleted
  IN /\ transactions[t].pc = "idle"
     /\ childGroupId # NoId
     /\ IF deleted = {}
        THEN /\ transactions' = [transactions EXCEPT ![t] =
                  [NoTransaction EXCEPT !.op = "unnestGroup", !.pc = "done",
                                        !.args = <<parentGroupId, childGroupId>>]]
             /\ last' = Call("unnestGroup", "NotFoundError")
             /\ UNCHANGED groupVars
        ELSE /\ transactions' = [transactions EXCEPT ![t] =
                  [NoTransaction EXCEPT !.op = "unnestGroup", !.pc = "rebuild delete",
                                        !.args = <<parentGroupId, childGroupId>>]]
             /\ group_members' = remaining
             /\ group_membership_closure' =
                  maintain_group_membership_delete(group_membership_closure,
                    group_ancestor_paths, remaining, parentGroupId, NoId, childGroupId)
             /\ UNCHANGED <<group_ancestor_paths, last>>
     /\ UNCHANGED <<pageVars, page_permissions, wsVars>>

\* rebuildGroupAncestorPaths, line 136: the rows that are no self rows are
\* deleted
UnnestRebuildDelete(t) ==
  /\ transactions[t].op = "unnestGroup" /\ transactions[t].pc = "rebuild delete"
  /\ group_ancestor_paths' =
       {r \in group_ancestor_paths : r.ancestor_group_id = r.descendant_group_id}
  /\ UnnestGoesTo(t, "rebuild insert")
  /\ UNCHANGED <<pageVars, page_permissions, group_members,
                 group_membership_closure, wsVars, last>>

\* lines 140-155: one round of the loop
UnnestRebuildInsert(t) ==
  LET round == RebuildRound(group_ancestor_paths, group_members)
  IN /\ transactions[t].op = "unnestGroup" /\ transactions[t].pc = "rebuild insert"
     /\ IF round = {}
        THEN /\ EndCall(t, Call("unnestGroup", OK))
             /\ UNCHANGED group_ancestor_paths
        ELSE IF GapKeyClash(round)
        THEN /\ EndCall(t, Call("unnestGroup", "DbError"))
             /\ UNCHANGED group_ancestor_paths
        ELSE /\ group_ancestor_paths' = group_ancestor_paths \cup round
             /\ UNCHANGED <<transactions, last>>
     /\ UNCHANGED <<pageVars, page_permissions, group_members,
                    group_membership_closure, wsVars>>

(* One unnestGroup without a transaction, beside addUser and nestGroup
   calls on the other connection. *)
UnnestGroups == {"g1", "g2", "g3"}
UnnestUserRows == 1

NextUnnest ==
  \/ \E g \in UnnestGroups :
       /\ Cardinality(UserRows) < UnnestUserRows
       /\ AddUser(g, "u1")
  \/ \E g \in UnnestGroups, c \in UnnestGroups : NestGroup(g, c)
  \/ \E g \in UnnestGroups, c \in UnnestGroups : UnnestDelete("t1", g, c)
  \/ UnnestRebuildDelete("t1")
  \/ UnnestRebuildInsert("t1")

SpecUnnest == InitGroup /\ [][NextUnnest]_vars

\* this step is an addUser or a nestGroup that runs while an unnestGroup
\* is between two of its statements
RunsBesideUnnest ==
  /\ last'.op \in {"addUser", "nestGroup"}
  /\ transactions' = transactions
  /\ \E t \in Connections : transactions[t].pc \in {"rebuild delete", "rebuild insert"}

\* C33: unnestGroup is atomic.  An addUser or a nestGroup that runs beside
\* an unnestGroup called without a transaction finds in
\* group_ancestor_paths a row for every pair of groups joined by the
\* nesting edges that group_members holds.
C33_UnnestAtomic ==
  [][RunsBesideUnnest => NestingPairs \subseteq GapPairs]_vars


(***************************************************************************)
(* A page INSERT beside one movePage.  The INSERT and its trigger are one  *)
(* statement on a connection of its own: it reads the committed rows and   *)
(* commits at once.                                                        *)
(***************************************************************************)
NewPage == RacePages + 1

NextRaceCreate ==
  \/ \E pageId \in 1..RacePages, newParentId \in 0..RacePages :
       MoveCheckPage("t1", pageId, newParentId)
  \/ MoveCheckParent("t1")
  \/ MoveCheckCycle("t1")
  \/ MoveStep1("t1")
  \/ MoveStep2("t1")
  \/ MoveStep3Select("t1")
  \/ MoveStep3Insert("t1")
  \/ MoveStep4("t1")
  \/ MoveCommit("t1")
  \/ \E x \in 1..RacePages : CreatePage(NewPage, x, "w1")

SpecRaceCreate == InitRace /\ [][NextRaceCreate]_vars

\* C34: a page created under x while x or an ancestor of x is being moved.
\* Whatever the interleaving of the INSERT (and its trigger) with the
\* statements of movePage, the committed rows of page_tree_paths that lead
\* to the new page are the rows of the closure of parent_id.
C34_CreateBesideMove ==
  NewPage \in PageIdSet =>
    {r \in page_tree_paths : r.descendant_id = NewPage}
      = {r \in ClosureOfParents : r.descendant_id = NewPage}


(***************************************************************************)
(* Duplicate edges.  A row of group_members is identified here by its key  *)
(* (group_id, user_id, child_group_id); the generated id column is left    *)
(* out, so a second row of a key would show as a successful INSERT that    *)
(* adds no row.                                                            *)
(***************************************************************************)
\* an addUser or nestGroup that failed because the edge is there
DuplicateRejected ==
  last'.op \in {"addUser", "nestGroup"}
    /\ last'.err \in {"ConflictError: already a member", "ConflictError: already nested"}

\* an addUser or nestGroup that succeeded
EdgeAdded == last'.op \in {"addUser", "nestGroup"} /\ last'.err = OK

\* C35: duplicate edges are rejected without effect.  Adding a user to a
\* group the user is a direct member of, or nesting a child group that is
\* directly nested in the same parent, fails with ConflictError and leaves
\* group_members, group_ancestor_paths and group_membership_closure as they
\* were; every successful addUser and nestGroup adds one row whose key was
\* not there, so no key of group_members has two rows.
C35_DuplicateEdges ==
  /\ [](\A m \in group_members :
          IF m.user_id # NoId
          THEN ErrorKind(AddUserOutcome(m.group_id, m.user_id)) = "ConflictError"
          ELSE ErrorKind(NestOutcome(m.group_id, m.child_group_id)) = "ConflictError")
  /\ [][DuplicateRejected => UNCHANGED groupVars]_vars
  /\ [][EdgeAdded => Cardinality(group_members') = Cardinality(group_members) + 1]_vars

\* u1 has just been refused as a member of a group it is in already, while
\* a group is nested in another and the membership index has rows
C35_Witness ==
  /\ last.op = "addUser" /\ last.err = "ConflictError: already a member"
  /\ \E m \in group_members : m.user_id # NoId
  /\ \E m \in group_members : m.child_group_id # NoId
  /\ group_membership_closure # {}


(***************************************************************************)
(* The loop-based resolver and the single-query resolver of                *)
(* permission.repository.ts.  getAncestors, getUserGrants and              *)
(* getGroupGrants are read off the resolution algorithm's description:     *)
(* the ancestors of the page in ascending depth, the user's grants and     *)
(* the grants of the user's groups on these pages.  The query's            *)
(* page_tree_closure and group_user_closure are the tables the migrations  *)
(* create as page_tree_paths and group_membership_closure.                 *)
(***************************************************************************)
RECURSIVE ByDepth(_)
ByDepth(rows) ==
  IF rows = {} THEN <<>>
  ELSE LET first == CHOOSE r \in rows : \A s \in rows : r.depth <= s.depth
       IN <<first>> \o ByDepth(rows \ {first})

getAncestors(paths, pageId) == ByDepth({r \in paths : r.descendant_id = pageId})

getUserGrants(perms, userId, pageIds) ==
  {g \in perms : g.user_id = userId /\ g.page_id \in pageIds}

getGroupGrants(perms, gmc, userId, pageIds) ==
  {g \in perms : g.group_id \in user_groups(gmc, userId) /\ g.page_id \in pageIds}

maxPermissionLevel(a, b) == IF LEVEL_ORDER(a) >= LEVEL_ORDER(b) THEN a ELSE b

\* groupLevels.reduce(maxPermissionLevel)
RECURSIVE ReduceMax(_)
ReduceMax(levels) ==
  LET l == CHOOSE x \in levels : TRUE
  IN IF levels = {l} THEN l ELSE maxPermissionLevel(ReduceMax(levels \ {l}), l)

LoopResult(ancestor, level) ==
  IF ancestor.depth = 0 THEN Direct(level, ancestor.ancestor_id)
  ELSE Inherited(level, ancestor.ancestor_id, ancestor.depth)

\* mutant: the groups' grants are looked at before the user's
RECURSIVE WalkAncestors_GroupFirst(_, _, _, _)
WalkAncestors_GroupFirst(ancs, i, userGrants, groupGrants) ==
  IF i > Len(ancs) THEN {NoAccess}
  ELSE LET userGrant == {g.permission : g \in {x \in userGrants :
                                                 x.page_id = ancs[i].ancestor_id}}
           groupLevels == {g.permission : g \in {x \in groupGrants :
                                                   x.page_id = ancs[i].ancestor_id}}
       IN IF groupLevels # {} THEN {LoopResult(ancs[i], ReduceMax(groupLevels))}
          ELSE IF userGrant # {} THEN {LoopResult(ancs[i], l) : l \in userGrant}
          ELSE WalkAncestors_GroupFirst(ancs, i + 1, userGrants, groupGrants)

\* Step 3: for (const ancestor of ancestors), from position i on
RECURSIVE WalkAncestors(_, _, _, _)
WalkAncestors(ancs, i, userGrants, groupGrants) ==
  IF i > Len(ancs) THEN {NoAccess}
  ELSE LET userGrant == {g.permission : g \in {x \in userGrants :
                                                 x.page_id = ancs[i].ancestor_id}}
           groupLevels == {g.permission : g \in {x \in groupGrants :
                                                   x.page_id = ancs[i].ancestor_id}}
       IN IF userGrant # {} THEN {LoopResult(ancs[i], l) : l \in userGrant}
          ELSE IF groupLevels # {} THEN {LoopResult(ancs[i], ReduceMax(groupLevels))}
          ELSE WalkAncestors(ancs, i + 1, userGrants, groupGrants)

\* the loop-based resolvePermission: the set of results a call may return
resolvePermissionLoop(userId, pageId) ==
  LET ancs == getAncestors(page_tree_paths, pageId)
      pageIds == {ancs[i].ancestor_id : i \in 1..Len(ancs)}
  IN IF Len(ancs) = 0 THEN {NoAccess}
     ELSE WalkAncestors(ancs, 1,
            getUserGrants(page_permissions, userId, pageIds),
            getGroupGrants(page_permissions, group_membership_closure, userId, pageIds))

\* the CTE grants of permission.repository.ts: both branches of the UNION ALL
QueryGrants(userId, pageId) ==
  {[permission |-> x[2].permission, depth |-> x[1].depth,
    source_page_id |-> x[2].page_id, grant_type |-> "user"] :
     x \in {y \in page_tree_paths \X page_permissions :
              /\ y[2].page_id = y[1].ancestor_id
              /\ y[1].descendant_id = pageId
              /\ y[2].user_id = userId}}
  \cup
  {[permission |-> x[2].permission, depth |-> x[1].depth,
    source_page_id |-> x[2].page_id, grant_type |-> "group"] :
     x \in {y \in page_tree_paths \X page_permissions :
              /\ y[2].page_id = y[1].ancestor_id
              /\ \E guc \in group_membership_closure :
                   guc.group_id = y[2].group_id /\ guc.user_id = userId
              /\ y[1].descendant_id = pageId
              /\ y[2].group_id # NoId}}

\* ORDER BY CASE grant_type ..., CASE permission ... DESC
QueryOrder(r, s) ==
  LET type(x) == IF x.grant_type = "user" THEN 0 ELSE 1
  IN \/ type(r) < type(s)
     \/ type(r) = type(s) /\ LEVEL_ORDER(r.permission) > LEVEL_ORDER(s.permission)

\* resolvePermission of permission.repository.ts: rows[0] shaped, for every
\* row the ORDER BY may put first
resolvePermissionQuery(userId, pageId) ==
  LET grants == QueryGrants(userId, pageId)
      md == CHOOSE d \in {g.depth : g \in grants} : \A g \in grants : d <= g.depth
      rows == {g \in grants : g.depth = md}
      winners == {w \in rows : \A s \in rows : ~QueryOrder(s, w)}
  IN IF grants = {} THEN {NoAccess}
     ELSE {IF winner.depth = 0
           THEN Direct(winner.permission, winner.source_page_id)
           ELSE Inherited(winner.permission, winner.source_page_id, winner.depth) :
             winner \in winners}

\* C36: the two resolver implementations agree.  For every user u and page
\* n, the loop-based resolver returns the kind, level, source page and
\* depth that the single-query resolver returns; the row of
\* RESOLVE_PERMISSION_SQL, where there is one, gives the same result, and
\* there is none exactly when both return no_access.
C36_ResolversAgree ==
  \A u \in users, n \in PageIds :
    LET rows == resolveFromPageTree(page_tree_paths, page_permissions,
                                    group_membership_closure, u, n)
    IN /\ resolvePermissionLoop(u, n) = resolvePermissionQuery(u, n)
       /\ resolvePermissionLoop(u, n) =
            (IF rows = {} THEN {NoAccess} ELSE {ShapeRow(row) : row \in rows})

\* the loop stops at a page where u holds a grant of its own and a group of
\* u a higher one, and reports the user's level from depth 1 or more
C36_Witness ==
  \E u \in users, n \in PageIdSet :
    \E r \in resolvePermissionLoop(u, n) :
      /\ r.kind = "inherited"
      /\ \E ug \in page_permissions, gg \in page_permissions :
           /\ ug.page_id = r.page /\ ug.user_id = u /\ ug.permission = r.level
           /\ gg.page_id = r.page
           /\ gg.group_id \in user_groups(group_membership_closure, u)
           /\ LEVEL_ORDER(gg.permission) > LEVEL_ORDER(ug.permission)


\* C37: inheritance correctness.  If the closest page on the ancestor chain
\* of p that carries a grant applicable to u is an ancestor a at depth 1 or
\* more, so that neither p nor a page between p and a carries one, then
\* resolvePermission(u, p) has the level of resolvePermission(u, a), is
\* inherited, and names a and a's depth as its source.
C37_InheritanceCorrectness ==
  \A u \in users, p \in PageIdSet :
    (MatchDepths(u, p) # {} /\ WinDepth(u, p) >= 1) =>
      LET D == WinDepth(u, p)
          a == AncestorAt(p, D)
      IN /\ {r.level : r \in resolvePermission(u, p)}
              = {r.level : r \in resolvePermission(u, a)}
         /\ \A r \in resolvePermission(u, p) :
              r.kind = "inherited" /\ r.page = a /\ r.depth = D
         /\ \A r \in resolvePermission(u, a) : r.kind = "direct" /\ r.page = a

\* a page whose parent carries a grant for u and whose grandparent carries
\* one of another level: the parent is named
C37_Witness ==
  \E u \in users, p \in PageIdSet :
    /\ MatchDepths(u, p) # {}
    /\ WinDepth(u, p) = 1
    /\ 2 \in MatchDepths(u, p)
    /\ \E g1 \in GrantsAt(u, p, 1), g2 \in GrantsAt(u, p, 2) :
         g1.permission # g2.permission
    /\ \A r \in resolvePermission(u, p) :
         r.page = AncestorAt(p, 1) /\ r.depth = 1


(***************************************************************************)
(* Grants.  setPermission inserts a row; no code updates or deletes one.   *)
(***************************************************************************)
\* this step is a successful setPermission that inserted the row g
GrantStep(g) ==
  /\ last'.op = "setPermission" /\ last'.err = OK
  /\ g \in page_permissions' \ page_permissions

\* the pair (u, n) lies in the reach of the grant g: n is the granted page
\* or below it along parent_id, and u is the granted user or has a path into
\* the granted group through the rows of group_members
InReachOf(g, u, n) ==
  /\ \E k \in Depths(n) : AncestorAt(n, k) = g.page_id
  /\ \/ g.user_id = u
     \/ g.group_id # NoId /\ u \in ReachingUsers(g.group_id)

\* C38: grant locality.  A new grant on page p changes resolvePermission(u,
\* n) only for the pages n that are p or a descendant of p, and only for
\* the granted user or the transitive members of the granted group; every
\* other (u, n) resolves to the same result before and after.
C38_GrantLocality ==
  [][\A g \in page_permissions' :
       GrantStep(g) =>
         \A u \in users, n \in PageIdSet :
           ~InReachOf(g, u, n) =>
             resolvePermission(u, n)' = resolvePermission(u, n)]_vars


(***************************************************************************)
(* The post-conditions of the resolvers.                                   *)
(***************************************************************************)
\* PermissionService.resolvePermission, the invariant on row.permission:
\* the call throws InvariantViolation
InvalidResolvedLevel(userId, pageId) ==
  \E row \in resolveFromPageTree(page_tree_paths, page_permissions,
                                 group_membership_closure, userId, pageId) :
    row.permission \notin PERMISSION_LEVELS

\* the invariant on result.kind of the resolver that wraps the single query
UnexpectedResultKind(userId, pageId) ==
  \E result \in resolvePermissionQuery(userId, pageId) :
    result.kind \notin {"direct", "inherited", "no_access"}

\* C39: resolution is total.  In every state reached by successful
\* mutations, resolvePermission(u, n) for an existing page n returns a
\* result and raises no InvariantViolation; the result is direct,
\* inherited, workspace_default or no_access, and the level it carries
\* (none for no_access) is one of none, read, write and full_access.
C39_ResolutionTotal ==
  \A u \in users, n \in PageIdSet :
    /\ ~InvalidResolvedLevel(u, n)
    /\ ~UnexpectedResultKind(u, n)
    /\ resolvePermission(u, n) # {}
    /\ \A r \in resolvePermission(u, n) :
         /\ r.kind \in {"direct", "inherited", "workspace_default", "no_access"}
         /\ r.kind # "no_access" => r.level \in PERMISSION_LEVELS
         /\ resolvedPermissionLevel(r) \in PERMISSION_LEVELS

\* a user resolves through the workspace default on one page and to
\* no_access on another, and a user resolves to an inherited grant
C39_Witness ==
  \E u \in users, v \in users, n \in PageIdSet, m \in PageIdSet :
    /\ \E r \in resolvePermission(u, n) : r.kind = "workspace_default"
    /\ \E r \in resolvePermission(u, m) : r.kind = "no_access"
    /\ \E r \in resolvePermission(v, m) : r.kind = "inherited"


\* C40: group ancestry depth.  In every state reached by nestings each
\* non-self row (a, d, k) of group_ancestor_paths whose d is reached from a
\* through the nesting edges has k equal to the number of edges of a
\* shortest chain from a to d, also after a later nestGroup has added a
\* second, shorter chain between a and d.
C40_ShortestDepth ==
  \A r \in group_ancestor_paths :
    (/\ r.ancestor_group_id # r.descendant_group_id
     /\ <<r.ancestor_group_id, r.descendant_group_id>> \in NestingPairs) =>
      r.depth = NestDistance({r.ancestor_group_id}, r.descendant_group_id, 0)

====
